---- MODULE Spec2Model ----
(***************************************************************************)
(* A model of kopsd, the kops daemon: the connection loop of server.rs,    *)
(* the request handlers of handler.rs, the attach path through             *)
(* kops_aws_eks and the pod reflector task of kube_worker.rs.              *)
(*                                                                         *)
(* Rust's Option<T> is modelled as a sequence: <<>> is None and <<x>> is   *)
(* Some(x).                                                                *)
(***************************************************************************)
EXTENDS Integers, Sequences, FiniteSets, TLC

(***************************************************************************)
(* Bounds of the model.                                                    *)
(***************************************************************************)
\* requests read by the daemon, over all connections
MaxReqs == 2
\* change events the cluster's API server emits after the daemon started
MaxApiEvents == 1
\* errors the watch streams yield, over all watch tasks
MaxErrors == 1

\* the connections the accept loop has handed to handle_client tasks
Conns == {1, 2}

None == <<>>
Some(x) == <<x>>
IsSome(o) == o /= <<>>
Unwrap(o) == o[1]
UnwrapOr(o, d) == IF o = <<>> THEN d ELSE o[1]

Range(s) == {s[i] : i \in 1..Len(s)}

RECURSIVE SetToSeq(_)
SetToSeq(S) ==
    IF S = {} THEN <<>>
    ELSE LET x == CHOOSE y \in S : TRUE IN <<x>> \o SetToSeq(S \ {x})

(***************************************************************************)
(* Strings are ordered as Rust orders them (byte-wise); TLC has no order   *)
(* on strings, so the strings of the model are ranked here in that order.  *)
(***************************************************************************)
StrOrder ==
    <<"", "1", "2", "A", "B", "CrashLoopBackOff", "Error", "a", "b",
      "default", "kube-system", "observability">>
StrRank(s) == CHOOSE i \in 1..Len(StrOrder) : StrOrder[i] = s
StrLess(a, b) == StrRank(a) < StrRank(b)

(***************************************************************************)
(* 32-bit signed arithmetic of restart counts: the sum of two i32 values   *)
(* as a release build computes it (two's complement wrap-around), written  *)
(* so that no intermediate value leaves the 32-bit range.                  *)
(***************************************************************************)
MaxI32 == 2147483647
MinI32 == (-MaxI32) - 1
AddI32(a, b) ==
    IF a >= 0 /\ b > MaxI32 - a THEN (a - MaxI32 - 1) + (b - MaxI32 - 1)
    ELSE IF a < 0 /\ b < MinI32 - a THEN (a + MaxI32 + 1) + (b + MaxI32 + 1)
    ELSE a + b

(***************************************************************************)
(* The pods of the attached cluster.  A pod carries the fields the daemon  *)
(* reads: metadata (name, namespace), status (phase, conditions,           *)
(* container_statuses) and spec (containers with their env).               *)
(***************************************************************************)
Cond(t, s) == [type_ |-> t, status |-> s]
CState(reason, message) == [reason |-> reason, message |-> message]
CStatus(restarts, waiting, terminated) ==
    [restart_count |-> restarts, waiting |-> waiting, terminated |-> terminated]
EnvVar(n, v) == [name |-> n, value |-> v]
Container(env) == [env |-> env]

PodTable ==
    << \* 1: a healthy pod in namespace observability
       [name |-> Some("a"), namespace |-> Some("observability"),
        status |-> Some([phase |-> Some("Running"),
                         conditions |-> Some(<<Cond("Ready", "True")>>),
                         container_statuses |->
                             Some(<<CStatus(1, None, None), CStatus(2, None, None)>>)]),
        spec |-> Some([containers |->
                         <<Container(Some(<<EnvVar("B", Some("2"))>>)),
                           Container(Some(<<EnvVar("A", Some("1"))>>))>>])],
       \* 2: a later version of the same pod, now failed
       [name |-> Some("a"), namespace |-> Some("observability"),
        status |-> Some([phase |-> Some("Failed"),
                         conditions |-> Some(<<Cond("Ready", "False")>>),
                         container_statuses |->
                             Some(<<CStatus(3, None, Some(CState(Some("Error"), Some("1")))),
                                    CStatus(2, None, None)>>)]),
        spec |-> Some([containers |->
                         <<Container(Some(<<EnvVar("B", Some("2"))>>)),
                           Container(None)>>])],
       \* 3: a crash-looping pod whose metadata carries no namespace
       [name |-> Some("b"), namespace |-> None,
        status |-> Some([phase |-> Some("Running"),
                         conditions |-> None,
                         container_statuses |->
                             Some(<<CStatus(4, Some(CState(Some("CrashLoopBackOff"), None)),
                                            None)>>)]),
        spec |-> Some([containers |-> <<>>])] >>

NPods == Len(PodTable)
\* what a reader that ignores the store's lock finds under a key that is being written
TornPod == [name |-> None, namespace |-> None, status |-> None, spec |-> None]
Absent == 0
Torn == NPods + 1
PodAt(i) == IF i \in 1..NPods THEN PodTable[i] ELSE TornPod

\* the store's key of an object (kube's ObjectRef: namespace and name)
KeyOf(i) == <<PodAt(i).namespace, PodAt(i).name>>
Keys == {KeyOf(i) : i \in 1..NPods}
EmptyObjs == [k \in Keys |-> Absent]

(***************************************************************************)
(* PodSummary::from_pod and extract_status_fields (kops_protocol).         *)
(***************************************************************************)
CondReady(conds) == \E i \in 1..Len(conds) :
    conds[i].type_ = "Ready" /\ conds[i].status = "True"

\* one pass of the loop over container_statuses: acc is (reason, message, restarts)
StatusStep(acc, c) ==
    LET r1 == IF IsSome(c.waiting) THEN Unwrap(c.waiting).reason ELSE acc.reason
        m1 == IF IsSome(c.waiting) THEN Unwrap(c.waiting).message ELSE acc.message
        r2 == IF IsSome(c.terminated) THEN Unwrap(c.terminated).reason ELSE r1
        m2 == IF IsSome(c.terminated) THEN Unwrap(c.terminated).message ELSE m1
    IN [reason |-> r2, message |-> m2,
        restarts |-> AddI32(acc.restarts, c.restart_count)]

RECURSIVE StatusFold(_, _)
StatusFold(acc, cs) ==
    IF cs = <<>> THEN acc ELSE StatusFold(StatusStep(acc, Head(cs)), Tail(cs))

extract_status_fields(status) ==
    LET init == [reason |-> None, message |-> None, restarts |-> 0]
        s == Unwrap(status)
        f == IF IsSome(status) /\ IsSome(s.container_statuses)
             THEN StatusFold(init, Unwrap(s.container_statuses))
             ELSE init
        ready == IF IsSome(status) /\ IsSome(s.conditions)
                 THEN CondReady(Unwrap(s.conditions))
                 ELSE FALSE
    IN [reason |-> f.reason, message |-> f.message, ready |-> ready,
        restart_count |-> f.restarts]

from_pod(cluster, pod) ==
    IF pod.name = None THEN None
    ELSE LET f == extract_status_fields(pod.status)
         IN Some([cluster |-> cluster,
                  namespace |-> UnwrapOr(pod.namespace, "default"),
                  name |-> Unwrap(pod.name),
                  phase |-> IF IsSome(pod.status) THEN Unwrap(pod.status).phase ELSE None,
                  reason |-> f.reason,
                  message |-> f.message,
                  ready |-> f.ready,
                  restart_count |-> f.restart_count])

(***************************************************************************)
(* The body of handle_pods after the snapshot: projection, filters, sort.  *)
(***************************************************************************)
\* for comparison: failed_only keeps the pods in phase Failed only
PodKeepFailedPhase(req, p) ==
    /\ (IsSome(req.namespace) => p.namespace = Unwrap(req.namespace))
    /\ (req.failed_only => p.phase = Some("Failed"))
\* the closure given to filter
PodKeep(req, p) ==
    /\ (IsSome(req.namespace) => p.namespace = Unwrap(req.namespace))
    /\ (req.failed_only =>
            \/ p.phase = Some("Failed")
            \/ p.reason = Some("CrashLoopBackOff"))

RECURSIVE ProjectPods(_, _, _)
ProjectPods(cluster, req, pods) ==
    IF pods = <<>> THEN <<>>
    ELSE LET v == from_pod(cluster, Head(pods))
             rest == ProjectPods(cluster, req, Tail(pods))
         IN IF IsSome(v) /\ PodKeep(req, Unwrap(v))
            THEN <<Unwrap(v)>> \o rest
            ELSE rest

\* the comparator of pods.sort_by: namespace, then name
PodLeq(a, b) ==
    \/ StrLess(a.namespace, b.namespace)
    \/ a.namespace = b.namespace /\ ~StrLess(b.name, a.name)

\* a stable insertion: x goes after every element that is not greater than it
RECURSIVE InsertPod(_, _)
InsertPod(x, s) ==
    IF s = <<>> THEN <<x>>
    ELSE IF PodLeq(Head(s), x) THEN <<Head(s)>> \o InsertPod(x, Tail(s))
    ELSE <<x>> \o s

RECURSIVE SortPods(_)
SortPods(s) ==
    IF s = <<>> THEN <<>>
    ELSE InsertPod(s[Len(s)], SortPods(SubSeq(s, 1, Len(s) - 1)))

PodsResult(cluster, req, pods) == SortPods(ProjectPods(cluster, req, pods))

(***************************************************************************)
(* The body of handle_env after the snapshot.                              *)
(***************************************************************************)
\* pods.iter().find(namespace == Some(req.namespace) && name_any == req.pod)
EnvMatches(req, pod) ==
    /\ pod.namespace = Some(req.namespace)
    /\ UnwrapOr(pod.name, "") = req.pod

RECURSIVE FindPod(_, _)
FindPod(req, pods) ==
    IF pods = <<>> THEN None
    ELSE IF EnvMatches(req, Head(pods)) THEN Some(Head(pods))
    ELSE FindPod(req, Tail(pods))

RECURSIVE CollectEnv(_)
CollectEnv(containers) ==
    IF containers = <<>> THEN <<>>
    ELSE UnwrapOr(Head(containers).env, <<>>) \o CollectEnv(Tail(containers))

\* the derived Ord of EnvEntry: name, then value (None before Some)
OptLess(a, b) ==
    \/ a = None /\ b /= None
    \/ a /= None /\ b /= None /\ StrLess(Unwrap(a), Unwrap(b))
EnvLeq(a, b) ==
    \/ StrLess(a.name, b.name)
    \/ a.name = b.name /\ ~OptLess(b.value, a.value)

RECURSIVE InsertEnv(_, _)
InsertEnv(x, s) ==
    IF s = <<>> THEN <<x>>
    ELSE IF EnvLeq(Head(s), x) THEN <<Head(s)>> \o InsertEnv(x, Tail(s))
    ELSE <<x>> \o s

\* for comparison: the variables are returned in the order of declaration
DeclaredOrder(s) == s
\* vars.sort()
RECURSIVE SortEnv(_)
SortEnv(s) ==
    IF s = <<>> THEN <<>>
    ELSE InsertEnv(s[Len(s)], SortEnv(SubSeq(s, 1, Len(s) - 1)))

(***************************************************************************)
(* Responses.  A message is the sequence of the parts format! joins.       *)
(***************************************************************************)
Pong == [kind |-> "Pong"]
VersionResp == [kind |-> "Version", protocol_version |-> "1"]
PodsResp(pods) == [kind |-> "Pods", pods |-> pods]
EnvVarsResp(vars) == [kind |-> "EnvVars", vars |-> vars]
LoginOk == [kind |-> "LoginOk"]
ErrorResp(message) == [kind |-> "Error", message |-> message]
NoResp == [kind |-> "none"]

\* for comparison: a pod that declares no variable is reported as an error
EnvReplyNonEmpty(list) ==
    IF list = <<>> THEN ErrorResp(<<"pod declares no environment">>)
    ELSE EnvVarsResp(list)
\* the value handle_env returns once the variables are collected and sorted
EnvReply(list) == EnvVarsResp(list)

EnvResult(req, pods) ==
    LET found == FindPod(req, pods)
        pod == Unwrap(found)
    IN IF found = None
       THEN ErrorResp(<<"pod ", req.namespace, "/", req.pod, " not found">>)
       ELSE IF pod.spec = None
       THEN ErrorResp(<<"pod has no spec">>)
       ELSE EnvReply(SortEnv(CollectEnv(Unwrap(pod.spec).containers)))

(***************************************************************************)
(* Requests (kops_protocol::Request as handler.rs matches on it).          *)
(***************************************************************************)
PingReq == [kind |-> "Ping"]
VersionReq == [kind |-> "Version"]
PodsReq(cluster, namespace, failed_only) ==
    [kind |-> "Pods", cluster |-> cluster, namespace |-> namespace,
     failed_only |-> failed_only]
EnvReq(cluster, namespace, pod, container, filter_regex) ==
    [kind |-> "Env", cluster |-> cluster, namespace |-> namespace, pod |-> pod,
     container |-> container, filter_regex |-> filter_regex]
LoginReq(name, region, account_id, role_name, access_key_id, secret_access_key, session_token, expires_at_epoch_ms) ==
    [kind |-> "Login", name |-> name, region |-> region, account_id |-> account_id,
     role_name |-> role_name, access_key_id |-> access_key_id,
     secret_access_key |-> secret_access_key, session_token |-> session_token,
     expires_at_epoch_ms |-> expires_at_epoch_ms]
NoReq == [kind |-> "none"]

\* the one cluster name start_clusters_for_profile attaches
AttachName == "eks-platform-dev"
\* the cluster names a request or the configuration can carry
ClusterNames == {AttachName, "staging"}

\* Timestamps are scaled down to small integers: timestamp_millis_opt accepts
\* a value only within chrono's date range, here -ChronoMax..ChronoMax.
ChronoMax == 1000
TimestampOk(ms) == -ChronoMax <= ms /\ ms <= ChronoMax
\* readings of the daemon's clock (Utc::now)
Clock == {500}

PodsReqs ==
    {PodsReq(None, None, FALSE),
     PodsReq(Some(AttachName), Some("observability"), TRUE)}
EnvReqs ==
    {EnvReq(None, "observability", "a", None, None),
     EnvReq(Some(AttachName), "default", "b", Some("app"), Some("^A"))}
LoginReqs ==
    {LoginReq("dev", Some("us-west-2"), "111111111111", "admin", "AKIA1", "secret1",
              "token1", 600),
     LoginReq("dev", None, "222222222222", "viewer", "AKIA2", "secret2",
              "token2", ChronoMax + 1),
     LoginReq("prod", Some("eu-west-1"), "333333333333", "admin", "AKIA3", "secret3",
              "token3", 700)}
Requests == {PingReq, VersionReq} \cup PodsReqs \cup EnvReqs \cup LoginReqs

(***************************************************************************)
(* The state of the daemon.                                                *)
(***************************************************************************)
VARIABLES
    pc,              \* where each connection task stands
    cur,             \* the request a connection is serving, with its number
    resp,            \* the response a connection is about to write
    loc,             \* the locals of the handler a connection runs
    nread,           \* requests read on each connection
    written,         \* per connection, the numbers of the requests answered
    aws_sessions,    \* DaemonState.aws_sessions: profile -> AwsSession
    clusters,        \* DaemonState.clusters: cluster name -> mirror
    default_cluster, \* DaemonState.default_cluster
    sessLock,        \* the connection holding the aws_sessions mutex, or 0
    clusLock,        \* the connection holding the clusters mutex, or 0
    installed,       \* whether the process has a default rustls CryptoProvider
    mirrors,         \* every ClusterState created, with its store and watch task
    apiLog,          \* the changes the cluster's API server has emitted
    nerrs,           \* errors the watch streams have yielded
    wire,            \* a byte stream between a writer and a reader of wire.rs
    probe,           \* a handler's computation on a snapshot, taken on its own
    sso,             \* kopsctl login: the locals of login_device_flow and execute
    srv              \* the daemon process from its start to its exit (_run)

vars == <<pc, cur, resp, loc, nread, written, aws_sessions, clusters,
          default_cluster, sessLock, clusLock, installed, mirrors, apiLog, nerrs,
          wire, probe, sso, srv>>

connVars == <<pc, cur, resp, loc, nread, written>>
registryVars == <<aws_sessions, clusters, default_cluster>>
lockVars == <<sessLock, clusLock>>
worldVars == <<mirrors, apiLog, nerrs>>
daemonVars == <<connVars, registryVars, lockVars, installed, worldVars>>
unitVars == <<wire, probe, sso, srv>>

NoLoc ==
    [session |-> None, sdk_config |-> None, client |-> None, mirror |-> 0,
     cluster |-> "", snap |-> <<>>]

\* HashMap: a function whose domain is the set of keys present
\* no stream and no computation are examined while the daemon runs
NoWire == [pcw |-> "none"]
NoProbe == [kind |-> "none"]
\* no login of kopsctl is examined, and the daemon is taken as started
NoSso == [pcs |-> "none"]
Serving == [pcv |-> "serving"]

EmptyMap == [x \in {} |-> 0]
MapInsert(m, k, v) == [x \in DOMAIN m \cup {k} |-> IF x = k THEN v ELSE m[x]]

RECURSIVE SumOver(_, _)
SumOver(f, S) ==
    IF S = {} THEN 0
    ELSE LET x == CHOOSE y \in S : TRUE IN f[x] + SumOver(f, S \ {x})
TotalReads == SumOver(nread, Conns)

Init ==
    /\ pc = [c \in Conns |-> "read"]
    /\ cur = [c \in Conns |-> [seq |-> 0, req |-> NoReq]]
    /\ resp = [c \in Conns |-> [seq |-> 0, msg |-> NoResp]]
    /\ loc = [c \in Conns |-> NoLoc]
    /\ nread = [c \in Conns |-> 0]
    /\ written = [c \in Conns |-> <<>>]
    /\ aws_sessions = EmptyMap
    /\ clusters = EmptyMap
    /\ default_cluster \in ClusterNames
    /\ sessLock = 0
    /\ clusLock = 0
    /\ installed = FALSE
    /\ mirrors = <<>>
    /\ apiLog = <<>>
    /\ nerrs = 0
    /\ wire = NoWire
    /\ probe = NoProbe
    /\ sso = NoSso
    /\ srv = Serving

(***************************************************************************)
(* The connection loop: server.rs, _run (accept) and handle_client.        *)
(***************************************************************************)
SetPc(c, p) == pc' = [pc EXCEPT ![c] = p]
SetLoc(c, l) == loc' = [loc EXCEPT ![c] = l]

\* the handler returns msg: handle_client goes on to write it
Respond(c, msg) ==
    /\ resp' = [resp EXCEPT ![c] = [seq |-> cur[c].seq, msg |-> msg]]
    /\ SetPc(c, "write")

\* the first step of the handler Handler::handle dispatches a request to
FirstStep(req) ==
    CASE req.kind = "Ping" -> "ping"
      [] req.kind = "Version" -> "version"
      [] req.kind = "Pods" -> "pods_lock"
      [] req.kind = "Env" -> "env_lock"
      [] req.kind = "Login" -> "login_lock"

\* for comparison: a loop that would read the next request while a response is pending
PipelinedRead(c) == pc[c] \in {"read", "write"}
\* handle_client reads the next request only at the top of its loop
CanRead(c) == pc[c] = "read"

\* read_message returned Ok(Some(req))
ReadRequestUpTo(c, req, max) ==
    /\ CanRead(c)
    /\ TotalReads < max
    /\ nread' = [nread EXCEPT ![c] = @ + 1]
    /\ cur' = [cur EXCEPT ![c] = [seq |-> nread[c] + 1, req |-> req]]
    /\ SetPc(c, FirstStep(req))
    /\ UNCHANGED <<resp, loc, written, registryVars, lockVars, installed, worldVars>>
    /\ UNCHANGED unitVars

ReadRequest(c, req) == ReadRequestUpTo(c, req, MaxReqs)

\* read_message returned Ok(None) (the peer closed) or Err: the loop breaks
ReadEnd(c) ==
    /\ pc[c] = "read"
    /\ SetPc(c, "closed")
    /\ UNCHANGED <<cur, resp, loc, nread, written, registryVars, lockVars,
                   installed, worldVars>>
    /\ UNCHANGED unitVars

\* write_message returned Ok: back to the top of the loop
WriteOk(c) ==
    /\ pc[c] = "write"
    /\ written' = [written EXCEPT ![c] = Append(@, resp[c].seq)]
    /\ cur' = [cur EXCEPT ![c] = [seq |-> 0, req |-> NoReq]]
    /\ resp' = [resp EXCEPT ![c] = [seq |-> 0, msg |-> NoResp]]
    /\ SetPc(c, "read")
    /\ SetLoc(c, NoLoc)
    /\ UNCHANGED <<nread, registryVars, lockVars, installed, worldVars>>
    /\ UNCHANGED unitVars

\* write_message returned Err: the loop breaks and the task's locals are dropped
WriteFail(c) ==
    /\ pc[c] = "write"
    /\ cur' = [cur EXCEPT ![c] = [seq |-> 0, req |-> NoReq]]
    /\ resp' = [resp EXCEPT ![c] = [seq |-> 0, msg |-> NoResp]]
    /\ SetPc(c, "closed")
    /\ SetLoc(c, NoLoc)
    /\ UNCHANGED <<nread, written, registryVars, lockVars, installed, worldVars>>
    /\ UNCHANGED unitVars

(***************************************************************************)
(* Handler::handle: Ping and Version.                                      *)
(***************************************************************************)
\* for comparison: a daemon that would answer only the first Ping of a connection
HandlePingOnce(c) ==
    /\ pc[c] = "ping"
    /\ Respond(c, IF cur[c].seq = 1 THEN Pong ELSE ErrorResp(<<"already answered">>))
    /\ UNCHANGED <<cur, loc, nread, written, registryVars, lockVars, installed, worldVars>>
    /\ UNCHANGED unitVars
\* Request::Ping => Response::Pong
HandlePing(c) ==
    /\ pc[c] = "ping"
    /\ Respond(c, Pong)
    /\ UNCHANGED <<cur, loc, nread, written, registryVars, lockVars, installed, worldVars>>
    /\ UNCHANGED unitVars

HandleVersion(c) ==
    /\ pc[c] = "version"
    /\ Respond(c, VersionResp)
    /\ UNCHANGED <<cur, loc, nread, written, registryVars, lockVars, installed, worldVars>>
    /\ UNCHANGED unitVars

(***************************************************************************)
(* The reflector's store as the handlers read it.                          *)
(***************************************************************************)
\* for comparison: a read that would not wait for the writer
IgnoreStoreLock(m) == TRUE
\* Store::state() takes the store's read lock: it waits while the writer holds it
StoreReadable(m) == ~m.writing

\* the objects of a store, as indices into PodTable
StoredSet(objs) == {objs[k] : k \in Keys} \ {Absent}

\* a watch event, carrying the index of its object (0 when it has none)
Ev(type, obj) == [type |-> type, obj |-> obj]
NoEvent == Ev("none", 0)

\* what the store's map holds while the writer is in the middle of ev
HalfApplied(objs, buffer, ev) ==
    CASE ev.type \in {"Apply", "Delete"} -> [objs EXCEPT ![KeyOf(ev.obj)] = Torn]
      [] ev.type = "InitDone" ->
            [k \in Keys |-> IF objs[k] = buffer[k] THEN objs[k] ELSE Torn]
      [] OTHER -> objs

\* the map a reader finds in the store of mirror m
ReadStore(m) == IF m.writing THEN HalfApplied(m.objs, m.buffer, m.pend) ELSE m.objs
\* the orders in which the values of a HashMap can be iterated
Orderings(S) == {s \in [1..Cardinality(S) -> S] : Range(s) = S}
PodsOf(snap) == [i \in 1..Len(snap) |-> PodAt(snap[i])]

\* for comparison: a request that names no cluster is taken to the cluster
\* the daemon attaches, whatever the configured default
ResolveToAttached(req) == UnwrapOr(req.cluster, AttachName)
\* the cluster name a request resolves to
ResolveCluster(req) == UnwrapOr(req.cluster, default_cluster)

(***************************************************************************)
(* Handler::handle_pods.                                                   *)
(***************************************************************************)
\* clusters.lock().unwrap() and clusters.get(cluster_name): the guard lives on
\* when the cluster is found, and is dropped by the early return when it is not
PodsLock(c) ==
    /\ pc[c] = "pods_lock"
    /\ clusLock = 0
    /\ LET name == ResolveCluster(cur[c].req) IN
       IF name \in DOMAIN clusters
       THEN /\ clusLock' = c
            /\ SetPc(c, "pods_snapshot")
            /\ SetLoc(c, [loc[c] EXCEPT !.cluster = name, !.mirror = clusters[name]])
            /\ UNCHANGED resp
       ELSE /\ clusLock' = 0
            /\ Respond(c, ErrorResp(<<"cluster not found: ", name>>))
            /\ UNCHANGED loc
    /\ UNCHANGED <<cur, nread, written, registryVars, sessLock, installed, worldVars>>
    /\ UNCHANGED unitVars

\* cluster_state.store().state(), the iterator chain, the sort and the return,
\* where the guard is dropped
PodsServe(c) ==
    /\ pc[c] = "pods_snapshot"
    /\ StoreReadable(mirrors[loc[c].mirror])
    /\ \E snap \in Orderings(StoredSet(ReadStore(mirrors[loc[c].mirror]))) :
         /\ SetLoc(c, [loc[c] EXCEPT !.snap = snap])
         /\ Respond(c, PodsResp(PodsResult(loc[c].cluster, cur[c].req, PodsOf(snap))))
    /\ clusLock' = 0
    /\ UNCHANGED <<cur, nread, written, registryVars, sessLock, installed, worldVars>>
    /\ UNCHANGED unitVars

(***************************************************************************)
(* Handler::handle_env.                                                    *)
(***************************************************************************)
EnvLock(c) ==
    /\ pc[c] = "env_lock"
    /\ clusLock = 0
    /\ LET name == ResolveCluster(cur[c].req) IN
       IF name \in DOMAIN clusters
       THEN /\ clusLock' = c
            /\ SetPc(c, "env_snapshot")
            /\ SetLoc(c, [loc[c] EXCEPT !.cluster = name, !.mirror = clusters[name]])
            /\ UNCHANGED resp
       ELSE /\ clusLock' = 0
            /\ Respond(c, ErrorResp(<<"cluster not found: ", name>>))
            /\ UNCHANGED loc
    /\ UNCHANGED <<cur, nread, written, registryVars, sessLock, installed, worldVars>>
    /\ UNCHANGED unitVars

\* cs.store().state(), the search for the pod, the collection and sort of the
\* variables and the return, where the guard is dropped
EnvServe(c) ==
    /\ pc[c] = "env_snapshot"
    /\ StoreReadable(mirrors[loc[c].mirror])
    /\ \E snap \in Orderings(StoredSet(ReadStore(mirrors[loc[c].mirror]))) :
         /\ SetLoc(c, [loc[c] EXCEPT !.snap = snap])
         /\ Respond(c, EnvResult(cur[c].req, PodsOf(snap)))
    /\ clusLock' = 0
    /\ UNCHANGED <<cur, nread, written, registryVars, sessLock, installed, worldVars>>
    /\ UNCHANGED unitVars

(***************************************************************************)
(* Handler::handle_login and start_clusters_for_profile.                   *)
(***************************************************************************)
\* the AwsSession built from the request (handler.rs 56-69)
MakeSession(req, now) ==
    [account_id |-> req.account_id,
     role_name |-> req.role_name,
     region |-> req.region,
     access_key_id |-> req.access_key_id,
     secret_access_key |-> req.secret_access_key,
     session_token |-> req.session_token,
     expires_at |-> IF TimestampOk(req.expires_at_epoch_ms)
                    THEN req.expires_at_epoch_ms ELSE now]

\* for comparison: a store that would keep the session a profile already has
InsertIfAbsent(map, name, session) ==
    IF name \in DOMAIN map THEN map ELSE MapInsert(map, name, session)
\* map.insert(req.name.clone(), session)
StoreSession(map, name, session) == MapInsert(map, name, session)

sdk_config_from_session(session) ==
    [access_key_id |-> session.access_key_id,
     secret_access_key |-> session.secret_access_key,
     session_token |-> session.session_token,
     expiry |-> session.expires_at,
     region |-> UnwrapOr(session.region, "us-east-1")]

\* the presigned STS URL: the cluster name is the signed x-k8s-aws-id header
create_cluster_token(sdk_config, cluster_name) ==
    [scheme |-> "k8s-aws-v1",
     host |-> <<"sts.", sdk_config.region, ".amazonaws.com">>,
     credential |-> sdk_config.access_key_id,
     cluster_id |-> cluster_name,
     expires_in |-> 60]

\* the kube::Config of create_kube_client
KubeClient(sdk_config, cluster_name) ==
    [described |-> cluster_name,
     token |-> create_cluster_token(sdk_config, cluster_name)]

\* the response of handle_login to the outcome of start_clusters_for_profile
LoginReply(name, err) ==
    IF err = None THEN LoginOk
    ELSE ErrorResp(<<"stored session but failed to start clusters for profile ",
                     name, ": ">> \o Unwrap(err))

\* a connection task panics: tokio drops the task, and with it its locals and
\* the stream; the request it was serving is never answered
Panic(c) == SetPc(c, "panicked")

\* the sessions guard once the block around map.insert has ended
SessGuardAfterInsert(c) == 0

\* self.state.aws_sessions.lock(), map.insert(..), and the end of the block
LoginStore(c) ==
    /\ pc[c] = "login_lock"
    /\ sessLock = 0
    /\ \E now \in Clock :
         aws_sessions' = StoreSession(aws_sessions, cur[c].req.name,
                                      MakeSession(cur[c].req, now))
    /\ sessLock' = SessGuardAfterInsert(c)
    /\ SetPc(c, "attach_get")
    /\ UNCHANGED <<cur, resp, loc, nread, written, clusters, default_cluster,
                   clusLock, installed, worldVars>>
    /\ UNCHANGED unitVars

\* for comparison: a guard that would live past the block
SessGuardKept(c) == c
\* the sessions guard once the block `let session = { .. }` has ended
SessGuardAfterGet(c) == 0

\* for comparison: an attach that would take the clusters lock at its start
\* and keep it while it waits for the control plane
AttachGetUnderClustersLock(c) ==
    /\ pc[c] = "attach_get"
    /\ sessLock = 0
    /\ clusLock = 0
    /\ cur[c].req.name \in DOMAIN aws_sessions
    /\ SetLoc(c, [loc[c] EXCEPT !.session = Some(aws_sessions[cur[c].req.name])])
    /\ SetPc(c, "attach_sdk")
    /\ clusLock' = c
    /\ UNCHANGED <<cur, resp, nread, written, registryVars, sessLock, installed,
                   worldVars>>
    /\ UNCHANGED unitVars
\* start_clusters_for_profile: aws_sessions.lock().unwrap(), then
\* map.get(profile).cloned().context(..)?, and the end of the block
AttachGet(c) ==
    /\ pc[c] = "attach_get"
    /\ sessLock = 0
    /\ LET name == cur[c].req.name IN
       IF name \in DOMAIN aws_sessions
       THEN /\ SetLoc(c, [loc[c] EXCEPT !.session = Some(aws_sessions[name])])
            /\ SetPc(c, "attach_sdk")
            /\ sessLock' = SessGuardAfterGet(c)
            /\ UNCHANGED resp
       ELSE /\ Respond(c, LoginReply(name,
                           Some(<<"no aws session stored for this profile">>)))
            /\ UNCHANGED loc
            /\ sessLock' = 0
    /\ UNCHANGED <<cur, nread, written, registryVars, clusLock, installed, worldVars>>
    /\ UNCHANGED unitVars

\* for comparison: an install that would succeed every time
InstallNeverFails == FALSE
\* CryptoProvider::install_default() is Err once the process has a default
InstallFails == installed

\* sdk_config_from_session(&session).await, then the start of create_kube_client:
\* aws_lc_rs::default_provider().install_default().expect(..)
AttachSdkConfig(c) ==
    /\ pc[c] = "attach_sdk"
    /\ IF InstallFails
       THEN /\ Panic(c)
            /\ SetLoc(c, NoLoc)
            /\ UNCHANGED installed
       ELSE /\ installed' = TRUE
            /\ SetLoc(c, [loc[c] EXCEPT !.sdk_config =
                            Some(sdk_config_from_session(Unwrap(loc[c].session)))])
            /\ SetPc(c, "attach_describe")
    /\ UNCHANGED <<cur, resp, nread, written, registryVars, lockVars, worldVars>>
    /\ UNCHANGED unitVars

\* what can go wrong in eks_k8s_cluster_info
DescribeFailures ==
    {"describe_cluster failed", "Unable to find cluster",
     "Unable to find certificate authority", "Unable to find certificate data",
     "certificate is not base64 PEM", "Unable to find endpoint",
     "endpoint is not a URI"}
\* what can go wrong in create_cluster_token and kube::Client::try_from
TokenFailures ==
    {"failed to provide AWS credentials", "Unable to create signing params",
     "signing failed", "client construction failed"}

\* for comparison: an attach whose failure would be logged and not reported
AttachFailureSwallowed(c, cause) ==
    /\ cause \in DescribeFailures \cup TokenFailures
    /\ Respond(c, LoginOk)
    /\ UNCHANGED loc
\* the ? after .with_context(..): the error handle_login formats is the context
AttachFailed(c, cause) ==
    /\ cause \in DescribeFailures \cup TokenFailures
    /\ Respond(c, LoginReply(cur[c].req.name,
                    Some(<<"failed to create kube client for cluster ", AttachName>>)))
    /\ UNCHANGED loc

\* eks_k8s_cluster_info(sdk_config, cluster_name).await?
AttachDescribe(c) ==
    /\ pc[c] = "attach_describe"
    /\ \/ /\ SetPc(c, "attach_token")
          /\ UNCHANGED <<resp, loc>>
       \/ \E cause \in DescribeFailures : AttachFailed(c, cause)
    /\ UNCHANGED <<cur, nread, written, registryVars, lockVars, installed, worldVars>>
    /\ UNCHANGED unitVars

\* create_cluster_token(sdk_config, cluster_name).await? and Client::try_from
AttachToken(c) ==
    /\ pc[c] = "attach_token"
    /\ \/ /\ SetLoc(c, [loc[c] EXCEPT
                          !.client = Some(KubeClient(Unwrap(loc[c].sdk_config),
                                                     AttachName))])
          /\ SetPc(c, "attach_init")
          /\ UNCHANGED resp
       \/ \E cause \in TokenFailures : AttachFailed(c, cause)
    /\ UNCHANGED <<cur, nread, written, registryVars, lockVars, installed, worldVars>>
    /\ UNCHANGED unitVars

(***************************************************************************)
(* kube_worker.rs, init_cluster_state: the store, the reflector and the    *)
(* spawned task that drives it.  The watcher lists (Init, InitApply..,     *)
(* InitDone) and then watches (Apply, Delete); the reflector applies each  *)
(* event to the store under the store's write lock before the task's       *)
(* for_each closure sees it.                                               *)
(***************************************************************************)
NewMirror(name, client) ==
    [name |-> name, client |-> client,
     objs |-> EmptyObjs, buffer |-> EmptyObjs,
     writing |-> FALSE, pend |-> NoEvent,
     wstate |-> "Empty", rv |-> 0, listq |-> <<>>,
     hist |-> <<>>, running |-> TRUE, warned |-> 0]

\* the effect of one event on the store (objs) and the reflector's buffer
ApplyEvent(st, ev) ==
    CASE ev.type = "Init" -> [st EXCEPT !.buffer = EmptyObjs]
      [] ev.type = "InitApply" -> [st EXCEPT !.buffer[KeyOf(ev.obj)] = ev.obj]
      [] ev.type = "InitDone" -> [objs |-> st.buffer, buffer |-> st.objs]
      [] ev.type = "Apply" -> [st EXCEPT !.objs[KeyOf(ev.obj)] = ev.obj]
      [] ev.type = "Delete" -> [st EXCEPT !.objs[KeyOf(ev.obj)] = Absent]
      [] OTHER -> st

RECURSIVE FoldEvents(_, _)
FoldEvents(st, evs) ==
    IF evs = <<>> THEN st ELSE FoldEvents(ApplyEvent(st, Head(evs)), Tail(evs))

EmptyStore == [objs |-> EmptyObjs, buffer |-> EmptyObjs]

\* the pods of the cluster when the daemon starts, and after k changes
ApiInit == [EmptyObjs EXCEPT ![KeyOf(1)] = 1]
ApiObjsAt(k) ==
    FoldEvents([objs |-> ApiInit, buffer |-> EmptyObjs], SubSeq(apiLog, 1, k)).objs
ApiObjs == ApiObjsAt(Len(apiLog))

\* the API server creates, updates or deletes a pod
ApiChangeUpTo(ev, max) ==
    /\ Len(apiLog) < max
    /\ \/ ev.type = "Apply" /\ ApiObjs[KeyOf(ev.obj)] /= ev.obj
       \/ ev.type = "Delete" /\ ApiObjs[KeyOf(ev.obj)] = ev.obj
    /\ apiLog' = Append(apiLog, ev)
    /\ UNCHANGED <<connVars, registryVars, lockVars, installed, mirrors, nerrs>>
    /\ UNCHANGED unitVars

ApiChange(ev) == ApiChangeUpTo(ev, MaxApiEvents)

ApiEvents == {Ev("Apply", 2), Ev("Apply", 3), Ev("Delete", 1)}

\* for comparison: a watcher that would not move on after an event
Redelivered(rv) == rv
\* the watcher's position in the upstream sequence once it has yielded an event
AfterEvent(rv) == rv + 1

\* the next event of the watcher's stream of mirror m, with the watcher's new state
StreamNext(m) ==
    CASE m.wstate = "Empty" ->
            [m EXCEPT !.pend = Ev("Init", 0), !.wstate = "Listing",
                      !.listq = SetToSeq(StoredSet(ApiObjs)), !.rv = Len(apiLog)]
      [] m.wstate = "Listing" /\ m.listq /= <<>> ->
            [m EXCEPT !.pend = Ev("InitApply", Head(m.listq)), !.listq = Tail(m.listq)]
      [] m.wstate = "Listing" /\ m.listq = <<>> ->
            [m EXCEPT !.pend = Ev("InitDone", 0), !.wstate = "Watching"]
      [] m.wstate = "Watching" /\ m.rv < Len(apiLog) ->
            [m EXCEPT !.pend = apiLog[m.rv + 1], !.rv = AfterEvent(m.rv)]
      [] OTHER -> m

StreamReady(m) == m.wstate /= "Watching" \/ m.rv < Len(apiLog)

\* the events that change the map the readers see
TouchesStore(ev) == ev.type \in {"InitDone", "Apply", "Delete"}

\* the task polls the reflector and the next event arrives.  Init and InitApply
\* go to the reflector's buffer; for the others the writer takes the store's
\* write lock
TaskBegin(t) ==
    /\ t \in DOMAIN mirrors
    /\ mirrors[t].running
    /\ ~mirrors[t].writing
    /\ StreamReady(mirrors[t])
    /\ LET m == StreamNext(mirrors[t])
           st == ApplyEvent([objs |-> m.objs, buffer |-> m.buffer], m.pend)
       IN mirrors' = [mirrors EXCEPT ![t] =
              IF TouchesStore(m.pend)
              THEN [m EXCEPT !.writing = TRUE]
              ELSE [m EXCEPT !.buffer = st.buffer, !.pend = NoEvent,
                             !.hist = Append(m.hist, m.pend)]]
    /\ UNCHANGED <<connVars, registryVars, lockVars, installed, apiLog, nerrs>>
    /\ UNCHANGED unitVars

\* the writer has applied the event and releases the write lock; the event
\* is Ok, so the closure of for_each does nothing
TaskEnd(t) ==
    /\ t \in DOMAIN mirrors
    /\ mirrors[t].writing
    /\ LET m == mirrors[t]
           st == ApplyEvent([objs |-> m.objs, buffer |-> m.buffer], m.pend)
       IN mirrors' = [mirrors EXCEPT ![t] =
              [m EXCEPT !.objs = st.objs, !.buffer = st.buffer, !.writing = FALSE,
                        !.pend = NoEvent, !.hist = Append(m.hist, m.pend)]]
    /\ UNCHANGED <<connVars, registryVars, lockVars, installed, apiLog, nerrs>>
    /\ UNCHANGED unitVars

\* for comparison: a closure that would end the task on Err
StopOnError == FALSE
\* whether the task goes on after the closure has seen an Err
RunsAfterError == TRUE

\* the watcher calls the API server when it lists (Empty) and while it watches
WatcherCallsApi(m) == m.wstate \in {"Empty", "Watching"}

\* a call of the watcher fails and the stream yields Err: the closure warns and
\* for_each goes on.  After a failed list the watcher lists again; after a
\* failed watch it resumes the watch where it stood, or lists again when the
\* server has forgotten that position
TaskError(t) ==
    /\ t \in DOMAIN mirrors
    /\ mirrors[t].running
    /\ ~mirrors[t].writing
    /\ WatcherCallsApi(mirrors[t])
    /\ nerrs < MaxErrors
    /\ nerrs' = nerrs + 1
    /\ \E ws \in (IF mirrors[t].wstate = "Watching"
                  THEN {"Empty", "Watching"} ELSE {"Empty"}) :
         mirrors' = [mirrors EXCEPT ![t] =
             [@ EXCEPT !.wstate = ws, !.warned = @ + 1, !.running = RunsAfterError]]
    /\ UNCHANGED <<connVars, registryVars, lockVars, installed, apiLog>>
    /\ UNCHANGED unitVars

(***************************************************************************)
(* start_clusters_for_profile, after the client is built.                  *)
(***************************************************************************)
\* for comparison: an insert under the daemon's default cluster
RegisterUnderDefault(map, name, mirror) == MapInsert(map, default_cluster, mirror)
\* .insert(name.clone(), cluster_state)
RegisterCluster(map, name, mirror) == MapInsert(map, name, mirror)

\* init_cluster_state(name.clone(), client).await creates the store, spawns the
\* task and returns without waiting for any event; then
\* clusters.lock().unwrap().insert(..), whose guard is dropped at the end of
\* the statement; Ok(()) is returned and handle_login answers LoginOk
AttachInit(c) ==
    /\ pc[c] = "attach_init"
    /\ clusLock = 0
    /\ mirrors' = Append(mirrors, NewMirror(AttachName, Unwrap(loc[c].client)))
    /\ SetLoc(c, [loc[c] EXCEPT !.mirror = Len(mirrors) + 1])
    /\ clusters' = RegisterCluster(clusters, AttachName, Len(mirrors) + 1)
    /\ Respond(c, LoginReply(cur[c].req.name, None))
    /\ UNCHANGED <<cur, nread, written, aws_sessions, default_cluster, lockVars,
                   installed, apiLog, nerrs>>
    /\ UNCHANGED unitVars

(***************************************************************************)
(* The daemon.                                                             *)
(***************************************************************************)
ConnStep(c) ==
    \/ \E req \in Requests : ReadRequest(c, req)
    \/ ReadEnd(c)
    \/ WriteOk(c)
    \/ WriteFail(c)
    \/ HandlePing(c)
    \/ HandleVersion(c)
    \/ PodsLock(c)
    \/ PodsServe(c)
    \/ EnvLock(c)
    \/ EnvServe(c)
    \/ LoginStore(c)
    \/ AttachGet(c)
    \/ AttachSdkConfig(c)
    \/ AttachDescribe(c)
    \/ AttachToken(c)
    \/ AttachInit(c)

TaskStep(t) == TaskBegin(t) \/ TaskEnd(t)

Next ==
    \/ \E c \in Conns : ConnStep(c)
    \/ \E t \in DOMAIN mirrors : TaskStep(t) \/ TaskError(t)
    \/ \E ev \in ApiEvents : ApiChange(ev)

Spec == Init /\ [][Next]_vars

(***************************************************************************)
(* kops_protocol::wire on its own: the bytes of a frame.  In this part a   *)
(* String is the sequence of its bytes, and a message is its variant with  *)
(* the values of its fields in declaration order, as derive(Encode,        *)
(* Decode) sees it.                                                        *)
(***************************************************************************)
\* u32::to_be_bytes and u32::from_be_bytes
U32LE(n) == <<n % 256, (n \div 256) % 256, (n \div 65536) % 256, n \div 16777216>>
U32BE(n) == <<n \div 16777216, (n \div 65536) % 256, (n \div 256) % 256, n % 256>>
FromBE(b) == ((b[1] * 256 + b[2]) * 256 + b[3]) * 256 + b[4]

\* encoded.len() as u32: the cast changes no length below 2^32, and every
\* length here is below that
AsU32(n) == n

\* the result of a decoding step: the value and the bytes left, or a failure
Decoded(val, rest) == [ok |-> TRUE, val |-> <<val>>, rest |-> rest]
DecodeFailed == [ok |-> FALSE, val |-> <<>>, rest |-> <<>>]

\* bincode::config::standard(): unsigned integers are variable-length
EncU(n) ==
    IF n < 251 THEN <<n>>
    ELSE IF n < 65536 THEN <<251, n % 256, n \div 256>>
    ELSE <<252>> \o U32LE(n)

\* 253, 254 and 255 announce more than 32 bits: too large for every integer and
\* every length of these messages
DecU(b) ==
    IF b = <<>> THEN DecodeFailed
    ELSE IF b[1] < 251 THEN Decoded(b[1], Tail(b))
    ELSE IF b[1] = 251 THEN
        IF Len(b) < 3 THEN DecodeFailed
        ELSE Decoded(b[2] + 256 * b[3], SubSeq(b, 4, Len(b)))
    ELSE IF b[1] = 252 THEN
        IF Len(b) < 5 \/ b[5] > 127 THEN DecodeFailed
        ELSE Decoded(FromBE(<<b[5], b[4], b[3], b[2]>>), SubSeq(b, 6, Len(b)))
    ELSE DecodeFailed

\* signed integers are zigzag-encoded, then variable-length
ZigZag(n) == IF n >= 0 THEN 2 * n ELSE (-2 * n) - 1
UnZigZag(u) == IF u % 2 = 0 THEN u \div 2 ELSE -((u + 1) \div 2)

\* the bytes of this model above 127 are 251..255, which no UTF-8 text contains
ValidUtf8(bytes) == \A i \in 1..Len(bytes) : bytes[i] < 128

\* the kinds of field of the messages
TStr == [k |-> "String", of |-> <<>>]
TOptStr == [k |-> "Option<String>", of |-> <<>>]
TBool == [k |-> "bool", of |-> <<>>]
TInt == [k |-> "int", of |-> <<>>]
TVec(fields) == [k |-> "Vec", of |-> fields]

RECURSIVE EncFields(_, _), EncItems(_, _)
\* the bytes of a value v of kind t
EncField(t, v) ==
    CASE t.k = "String" -> EncU(Len(v)) \o v
      [] t.k = "Option<String>" ->
            IF v = None THEN <<0>> ELSE <<1>> \o EncU(Len(Unwrap(v))) \o Unwrap(v)
      [] t.k = "bool" -> IF v THEN <<1>> ELSE <<0>>
      [] t.k = "int" -> EncU(ZigZag(v))
      [] t.k = "Vec" -> EncU(Len(v)) \o EncItems(t.of, v)

\* the fields of a struct, one after the other
EncFields(ts, vs) ==
    IF ts = <<>> THEN <<>>
    ELSE EncField(Head(ts), Head(vs)) \o EncFields(Tail(ts), Tail(vs))

\* the items of a Vec of structs
EncItems(ts, items) ==
    IF items = <<>> THEN <<>>
    ELSE EncFields(ts, Head(items)) \o EncItems(ts, Tail(items))

DecStr(b) ==
    LET n == DecU(b) IN
    IF ~n.ok THEN DecodeFailed
    ELSE IF Len(n.rest) < n.val[1] THEN DecodeFailed
    ELSE IF ~ValidUtf8(SubSeq(n.rest, 1, n.val[1])) THEN DecodeFailed
    ELSE Decoded(SubSeq(n.rest, 1, n.val[1]), SubSeq(n.rest, n.val[1] + 1, Len(n.rest)))

RECURSIVE DecFields(_, _), DecItems(_, _, _), DecFieldsAfter(_, _), DecItemsAfter(_, _, _)
\* a value of kind t read from the bytes b
DecField(t, b) ==
    CASE t.k = "String" -> DecStr(b)
      [] t.k = "Option<String>" ->
            IF b = <<>> THEN DecodeFailed
            ELSE IF b[1] = 0 THEN Decoded(None, Tail(b))
            ELSE IF b[1] = 1 THEN
                LET s == DecStr(Tail(b)) IN
                IF s.ok THEN Decoded(Some(s.val[1]), s.rest) ELSE DecodeFailed
            ELSE DecodeFailed
      [] t.k = "bool" ->
            IF b = <<>> \/ b[1] > 1 THEN DecodeFailed ELSE Decoded(b[1] = 1, Tail(b))
      [] t.k = "int" ->
            LET u == DecU(b) IN
            IF u.ok THEN Decoded(UnZigZag(u.val[1]), u.rest) ELSE DecodeFailed
      [] t.k = "Vec" ->
            LET n == DecU(b) IN
            IF n.ok THEN DecItems(t.of, n.val[1], n.rest) ELSE DecodeFailed

\* the fields after the first, whose decoding gave f; each step is bound
\* by a one-element set, so that it is computed once
ConsDecoded(f, r) ==
    IF ~r.ok THEN DecodeFailed ELSE Decoded(<<f.val[1]>> \o r.val[1], r.rest)
DecFieldsAfter(ts, f) ==
    IF ~f.ok THEN DecodeFailed
    ELSE CHOOSE d \in {ConsDecoded(f, r) : r \in {DecFields(Tail(ts), f.rest)}} : TRUE
DecFields(ts, b) ==
    IF ts = <<>> THEN Decoded(<<>>, b)
    ELSE CHOOSE d \in {DecFieldsAfter(ts, f) : f \in {DecField(Head(ts), b)}} : TRUE

DecItemsAfter(ts, n, i) ==
    IF ~i.ok THEN DecodeFailed
    ELSE CHOOSE d \in {ConsDecoded(i, r) : r \in {DecItems(ts, n - 1, i.rest)}} : TRUE
DecItems(ts, n, b) ==
    IF n = 0 THEN Decoded(<<>>, b)
    ELSE CHOOSE d \in {DecItemsAfter(ts, n, i) : i \in {DecFields(ts, b)}} : TRUE

\* enum Request and enum Response: the variants in declaration order, with the
\* kinds of their fields.  Login and LoginOk are used by handler.rs; they are
\* taken to follow the variants lib.rs declares
Variant(name, fields) == [name |-> name, fields |-> fields]

PodSummaryFields == <<TStr, TStr, TStr, TOptStr, TOptStr, TOptStr, TBool, TInt>>
EnvEntryFields == <<TStr, TOptStr>>
VersionInfoFields == <<TStr, TStr, TOptStr, TOptStr>>
LoginRequestFields == <<TStr, TOptStr, TStr, TStr, TStr, TStr, TStr, TInt>>

RequestVariants ==
    <<Variant("Ping", <<>>),
      Variant("Pods", <<TOptStr, TOptStr, TBool>>),
      Variant("Env", <<TOptStr, TStr, TStr, TOptStr, TOptStr>>),
      Variant("Version", <<>>),
      Variant("Login", LoginRequestFields)>>

ResponseVariants ==
    <<Variant("Pong", <<>>),
      Variant("Version", VersionInfoFields),
      Variant("Pods", <<TVec(PodSummaryFields)>>),
      Variant("EnvVars", <<TVec(EnvEntryFields)>>),
      Variant("Error", <<TStr>>),
      Variant("LoginOk", <<>>)>>

VariantsOf(T) == IF T = "Request" THEN RequestVariants ELSE ResponseVariants

\* a message: the name of its variant and the values of its fields
Msg(name, vals) == [variant |-> name, vals |-> vals]
SameMsg(a, b) == a.variant = b.variant /\ a.vals = b.vals

\* bincode::encode_to_vec(msg, config): the variant's index, then its fields
EncodeMsg(T, msg) ==
    LET i == CHOOSE i \in 1..Len(VariantsOf(T)) : VariantsOf(T)[i].name = msg.variant
    IN EncU(i - 1) \o EncFields(VariantsOf(T)[i].fields, msg.vals)

\* bincode::decode_from_slice(&buf, config): bytes after the value are ignored
DecodeMsg(T, b) ==
    LET tag == DecU(b) IN
    IF ~tag.ok THEN DecodeFailed
    ELSE IF tag.val[1] >= Len(VariantsOf(T)) THEN DecodeFailed
    ELSE LET v == VariantsOf(T)[tag.val[1] + 1]
             f == DecFields(v.fields, tag.rest)
         IN IF f.ok THEN Decoded(Msg(v.name, f.val[1]), f.rest) ELSE DecodeFailed

\* write_message: the length prefix, then the payload
WriteFrame(T, msg) ==
    LET encoded == EncodeMsg(T, msg)
    IN U32BE(AsU32(Len(encoded))) \o encoded

RECURSIVE WriteFrames(_, _)
WriteFrames(T, msgs) ==
    IF msgs = <<>> THEN <<>>
    ELSE WriteFrame(T, Head(msgs)) \o WriteFrames(T, Tail(msgs))

\* what read_message returns
ReadResult(kind, msg, rest) == [kind |-> kind, msg |-> <<msg>>, rest |-> rest]

\* for comparison: a read that would report the end of the stream inside the
\* length prefix as an I/O error, even when no byte has arrived
PrefixEofIsError(buf) == "Io"
\* read_exact of the length prefix met the end of the stream: Ok(None), whether
\* or not some bytes of the prefix had arrived
OnPrefixEof(buf) == "None"

\* read_message on a stream that holds the bytes buf, and has ended if eof; it
\* waits ("Pending") while the stream is open and the frame is not whole
read_message(T, buf, eof) ==
    IF Len(buf) < 4
    THEN IF eof THEN ReadResult(OnPrefixEof(buf), 0, buf) ELSE ReadResult("Pending", 0, buf)
    ELSE LET len == FromBE(SubSeq(buf, 1, 4)) IN
         IF Len(buf) < 4 + len
         THEN IF eof THEN ReadResult("Io", 0, buf) ELSE ReadResult("Pending", 0, buf)
         ELSE LET d == DecodeMsg(T, SubSeq(buf, 5, 4 + len)) IN
              IF d.ok
              THEN ReadResult("Some", d.val[1], SubSeq(buf, 5 + len, Len(buf)))
              ELSE ReadResult("BinDecode", 0, SubSeq(buf, 5 + len, Len(buf)))

(***************************************************************************)
(* A stream between a peer and a reader that runs the loop of              *)
(* handle_client: read a message, answer it, read the next.                *)
(***************************************************************************)
\* the strings of the messages on the stream, as bytes
Sa == <<97>>
Sab == <<97, 98>>

\* what a peer writes with write_message: requests to the daemon, and
\* responses to the client, every variant with optionals absent and present
\* and lists empty and not
WireTraffic ==
    <<[T |-> "Request", msgs |-> <<Msg("Ping", <<>>)>>],
      [T |-> "Request", msgs |-> <<Msg("Version", <<>>), Msg("Ping", <<>>)>>],
      [T |-> "Request", msgs |-> <<Msg("Pods", <<None, None, FALSE>>)>>],
      [T |-> "Request", msgs |-> <<Msg("Pods", <<Some(Sa), Some(<<>>), TRUE>>),
                                   Msg("Env", <<None, Sa, Sab, None, None>>)>>],
      [T |-> "Request", msgs |-> <<Msg("Env", <<Some(Sa), <<>>, Sa, Some(Sab), Some(Sa)>>)>>],
      [T |-> "Request", msgs |-> <<Msg("Login", <<Sa, None, Sa, Sa, Sa, Sa, Sa, 600>>),
                                   Msg("Ping", <<>>)>>],
      [T |-> "Request", msgs |-> <<Msg("Login", <<Sab, Some(Sab), <<>>, Sa, Sa, Sa, Sa, -1>>)>>],
      [T |-> "Response", msgs |-> <<Msg("Pong", <<>>), Msg("LoginOk", <<>>)>>],
      [T |-> "Response", msgs |-> <<Msg("Version", <<Sa, Sa, None, None>>)>>],
      [T |-> "Response", msgs |-> <<Msg("Version", <<Sab, <<>>, Some(Sa), Some(Sab)>>)>>],
      [T |-> "Response", msgs |-> <<Msg("Pods", << <<>> >>), Msg("EnvVars", << <<>> >>)>>],
      [T |-> "Response", msgs |->
          <<Msg("Pods", << << <<Sa, Sa, Sa, None, None, None, FALSE, 0>>,
                              <<Sa, Sab, Sa, Some(Sa), Some(Sab), Some(<<>>), TRUE, 70000>>,
                              <<Sab, <<>>, Sa, Some(Sa), None, None, FALSE, -3>> >> >>)>>],
      [T |-> "Response", msgs |->
          <<Msg("EnvVars", << << <<Sa, Some(Sab)>>, <<Sab, None>>, <<Sab, Some(<<>>)>> >> >>),
            Msg("Error", << <<>> >>)>>],
      [T |-> "Response", msgs |-> <<Msg("Error", <<Sab>>), Msg("Pong", <<>>)>>]>>

\* what a peer that does not use write_message can send: a length prefix that
\* is not the length of the payload sent with it, or a payload that is no
\* encoding of a message
BrokenTraffic ==
    <<[T |-> "Request", cause |-> "length", bytes |-> <<0, 0, 0, 3, 0>>],
      [T |-> "Request", cause |-> "length", bytes |-> <<0, 0, 0, 0>>],
      [T |-> "Request", cause |-> "length", bytes |-> <<0, 0, 0, 1, 1, 0, 0, 1>>],
      [T |-> "Request", cause |-> "length", bytes |-> <<0, 0, 0, 1, 0, 3, 0>>],
      [T |-> "Response", cause |-> "length", bytes |-> <<0, 0, 0, 9, 4, 2, 97, 98>>],
      [T |-> "Request", cause |-> "payload", bytes |-> <<0, 0, 0, 1, 9>>],
      [T |-> "Request", cause |-> "payload", bytes |-> <<0, 0, 0, 4, 1, 0, 0, 2>>],
      [T |-> "Request", cause |-> "payload", bytes |-> <<0, 0, 0, 4, 1, 1, 1, 255>>],
      [T |-> "Response", cause |-> "payload", bytes |-> <<0, 0, 0, 2, 4, 255>>],
      [T |-> "Response", cause |-> "payload", bytes |-> <<0, 0, 0, 3, 3, 1, 251>>]>>

\* a stream on which the peer will send bytes, with what the reader has done
Stream(T, cause, sent, bytes) ==
    [pcw |-> "read", T |-> T, cause |-> cause, sent |-> sent, peer |-> bytes,
     inbuf |-> <<>>, eof |-> FALSE, reset |-> FALSE, got |-> <<>>,
     outcome |-> "none", replies |-> 0]

WireStreams ==
    {Stream(WireTraffic[i].T, "none", WireTraffic[i].msgs,
            WriteFrames(WireTraffic[i].T, WireTraffic[i].msgs)) :
        i \in 1..Len(WireTraffic)}
    \cup
    {Stream(BrokenTraffic[i].T, BrokenTraffic[i].cause, <<>>, BrokenTraffic[i].bytes) :
        i \in 1..Len(BrokenTraffic)}

WireInit ==
    /\ wire \in WireStreams
    /\ probe = NoProbe
    /\ sso = NoSso
    /\ srv = Serving
    /\ pc = [c \in Conns |-> "read"]
    /\ cur = [c \in Conns |-> [seq |-> 0, req |-> NoReq]]
    /\ resp = [c \in Conns |-> [seq |-> 0, msg |-> NoResp]]
    /\ loc = [c \in Conns |-> NoLoc]
    /\ nread = [c \in Conns |-> 0]
    /\ written = [c \in Conns |-> <<>>]
    /\ aws_sessions = EmptyMap
    /\ clusters = EmptyMap
    /\ default_cluster = AttachName
    /\ sessLock = 0
    /\ clusLock = 0
    /\ installed = FALSE
    /\ mirrors = <<>>
    /\ apiLog = <<>>
    /\ nerrs = 0

\* the stream is still connected
Connected == ~wire.eof /\ ~wire.reset

\* one more byte of the peer arrives
PeerSend ==
    /\ Connected
    /\ wire.peer /= <<>>
    /\ wire' = [wire EXCEPT !.inbuf = Append(@, Head(wire.peer)), !.peer = Tail(@)]
    /\ UNCHANGED <<daemonVars, probe, sso, srv>>

\* the peer closes the stream: what it has not sent is never sent
PeerClose ==
    /\ Connected
    /\ wire' = [wire EXCEPT !.eof = TRUE]
    /\ UNCHANGED <<daemonVars, probe, sso, srv>>

\* the connection breaks: the reader's calls fail from now on
PeerReset ==
    /\ Connected
    /\ wire.pcw /= "closed"
    /\ wire' = [wire EXCEPT !.reset = TRUE]
    /\ UNCHANGED <<daemonVars, probe, sso, srv>>

\* read_message returns Ok(Some(msg)): the loop goes on to answer it
WireReadSome ==
    /\ wire.pcw = "read"
    /\ ~wire.reset
    /\ LET r == read_message(wire.T, wire.inbuf, wire.eof) IN
       /\ r.kind = "Some"
       /\ wire' = [wire EXCEPT !.got = Append(@, r.msg[1]), !.inbuf = r.rest,
                               !.pcw = "write"]
    /\ UNCHANGED <<daemonVars, probe, sso, srv>>

\* read_message returns Ok(None) or Err: the loop breaks
WireReadEnd ==
    /\ wire.pcw = "read"
    /\ LET r == read_message(wire.T, wire.inbuf, wire.eof)
           kind == IF wire.reset THEN "Io" ELSE r.kind
       IN /\ kind \in {"None", "Io", "BinDecode"}
          /\ wire' = [wire EXCEPT !.pcw = "closed", !.outcome = kind,
                                  !.inbuf = IF wire.reset THEN @ ELSE r.rest]
    /\ UNCHANGED <<daemonVars, probe, sso, srv>>

\* write_message returns Ok: back to the top of the loop
WireWriteOk ==
    /\ wire.pcw = "write"
    /\ ~wire.reset
    /\ wire' = [wire EXCEPT !.replies = @ + 1, !.pcw = "read"]
    /\ UNCHANGED <<daemonVars, probe, sso, srv>>

\* write_message returns Err: the peer is gone; the loop breaks
WireWriteFail ==
    /\ wire.pcw = "write"
    /\ ~Connected
    /\ wire' = [wire EXCEPT !.pcw = "closed", !.outcome = "IoOnWrite"]
    /\ UNCHANGED <<daemonVars, probe, sso, srv>>

WireNext ==
    \/ PeerSend
    \/ PeerClose
    \/ PeerReset
    \/ WireReadSome
    \/ WireReadEnd
    \/ WireWriteOk
    \/ WireWriteFail

WireSpec == WireInit /\ [][WireNext]_vars

(***************************************************************************)
(* The daemon with a single client that logs in, under the scheduling the  *)
(* runtime guarantees: a spawned watch task whose stream has an event      *)
(* ready is eventually polled, and a writer that holds the store's lock    *)
(* eventually releases it.                                                 *)
(***************************************************************************)
WatchClient == CHOOSE c \in Conns : \A d \in Conns : c <= d

\* the Logins of that client: the task it starts does not depend on the session
WatchLogins == {req \in LoginReqs : req.name = "prod"}

WatchNext ==
    \/ \E req \in WatchLogins : ReadRequest(WatchClient, req)
    \/ LoginStore(WatchClient)
    \/ AttachGet(WatchClient)
    \/ AttachSdkConfig(WatchClient)
    \/ AttachDescribe(WatchClient)
    \/ AttachToken(WatchClient)
    \/ AttachInit(WatchClient)
    \/ WriteOk(WatchClient)
    \/ \E t \in DOMAIN mirrors : TaskStep(t) \/ TaskError(t)
    \/ \E ev \in ApiEvents : ApiChange(ev)

WatchSpec ==
    /\ Init
    /\ [][WatchNext]_vars
    /\ WF_vars(TaskBegin(1))
    /\ WF_vars(TaskEnd(1))

(***************************************************************************)
(* C1.                                                                     *)
(***************************************************************************)
\* the maps the store of mirror m has held: one for every prefix of the events
\* applied to it
PrefixStores(m) ==
    {StoredSet(FoldEvents(EmptyStore, SubSeq(m.hist, 1, k)).objs) : k \in 0..Len(m.hist)}

\* the connections that have taken a snapshot for the Pods or Env request they serve
HasSnapshot(c) ==
    /\ pc[c] = "write"
    /\ cur[c].req.kind \in {"Pods", "Env"}
    /\ loc[c].mirror /= 0

\* C1: every snapshot a Pods or Env handler has taken, whatever the watch task
\* was doing at that time, is the store after some prefix of the events
\* applied to the mirror; it never holds a half-applied event
C1_SnapshotIsPrefix ==
    \A c \in Conns :
        HasSnapshot(c) => Range(loc[c].snap) \in PrefixStores(mirrors[loc[c].mirror])

\* a handler holds a non-empty snapshot of a mirror whose writer is in the
\* middle of applying a later event
C1_Witness ==
    \E c \in Conns :
        /\ HasSnapshot(c)
        /\ loc[c].snap /= <<>>
        /\ mirrors[loc[c].mirror].writing
        /\ mirrors[loc[c].mirror].pend.type \in {"Apply", "Delete"}

(***************************************************************************)
(* C2.                                                                     *)
(***************************************************************************)
\* C2: on every connection the k-th response written answers the k-th request
\* read, and a request is read only when every earlier one has been answered
C2_InOrderNoPipelining ==
    \A c \in Conns :
        /\ \A k \in 1..Len(written[c]) : written[c][k] = k
        /\ Len(written[c]) <= nread[c]
        /\ nread[c] - Len(written[c]) <= 1
        /\ (pc[c] = "read" => nread[c] = Len(written[c]))

\* a connection has read its second request after the first was answered
C2_Witness ==
    \E c \in Conns : nread[c] = 2 /\ Len(written[c]) = 1 /\ pc[c] = "write"

(***************************************************************************)
(* C3.                                                                     *)
(***************************************************************************)
\* every field of session s comes from request req (expires_at from the
\* daemon's clock when the request's timestamp is out of range)
SessionFromRequest(s, req) ==
    /\ s.account_id = req.account_id
    /\ s.role_name = req.role_name
    /\ s.region = req.region
    /\ s.access_key_id = req.access_key_id
    /\ s.secret_access_key = req.secret_access_key
    /\ s.session_token = req.session_token
    /\ IF TimestampOk(req.expires_at_epoch_ms)
       THEN s.expires_at = req.expires_at_epoch_ms
       ELSE s.expires_at \in Clock

AttachPcs == {"attach_get", "attach_sdk", "attach_describe", "attach_token", "attach_init"}

\* connection c stores the session of its Login in this step
StoresSession(c) == pc[c] = "login_lock" /\ pc'[c] /= "login_lock"

\* the other profiles keep their sessions
OthersKept(p) ==
    \A q \in DOMAIN aws_sessions :
        q /= p => q \in DOMAIN aws_sessions' /\ aws_sessions'[q] = aws_sessions[q]

\* C3: a Login has stored its session when its attach starts; the session it
\* stores under its profile has every field from this request, whatever was
\* stored there before, and no other profile's session changes; no other step
\* changes the sessions
C3_LoginSupersedes ==
    /\ [](\A c \in Conns : pc[c] \in AttachPcs => cur[c].req.name \in DOMAIN aws_sessions)
    /\ [][\A c \in Conns :
            StoresSession(c) =>
                /\ cur[c].req.name \in DOMAIN aws_sessions'
                /\ SessionFromRequest(aws_sessions'[cur[c].req.name], cur[c].req)
                /\ DOMAIN aws_sessions' = DOMAIN aws_sessions \cup {cur[c].req.name}
                /\ OthersKept(cur[c].req.name)]_vars
    /\ [][(\A c \in Conns : ~StoresSession(c)) => aws_sessions' = aws_sessions]_vars

\* the session of a profile is that of a later Login, while the connection
\* whose earlier Login stored another session there is still in its attach
C3_Witness ==
    \E c \in Conns :
        /\ pc[c] \in AttachPcs
        /\ ~SessionFromRequest(aws_sessions[cur[c].req.name], cur[c].req)

(***************************************************************************)
(* C4.                                                                     *)
(***************************************************************************)
\* the handler of connection c's Login is over: it has a reply to write, or it
\* has panicked
LoginEnded(c) == cur[c].req.kind = "Login" /\ pc[c] \in {"write", "panicked"}

\* the reply tells that the session was stored and why the attach failed
ReportsStoredAndCause(msg, name) ==
    /\ msg.kind = "Error"
    /\ Len(msg.message) > 3
    /\ SubSeq(msg.message, 1, 3) =
         <<"stored session but failed to start clusters for profile ", name, ": ">>

\* C4: a Login whose attach did not register a mirror is answered by an Error
\* that reports the stored session and the attach error, and its session is
\* still stored; a Login whose attach registered a mirror is answered LoginOk
C4_AttachFailureReported ==
    \A c \in Conns :
        LoginEnded(c) =>
            IF loc[c].mirror /= 0
            THEN resp[c].msg = LoginOk
            ELSE /\ ReportsStoredAndCause(resp[c].msg, cur[c].req.name)
                 /\ cur[c].req.name \in DOMAIN aws_sessions

(***************************************************************************)
(* C5.                                                                     *)
(***************************************************************************)
\* mirror m was built for the cluster called name: the write handle, the
\* cluster described and the identity signed into the token all bear that name
BuiltFor(m, name) ==
    /\ m.name = name
    /\ m.client.described = name
    /\ m.client.token.cluster_id = name

\* connection c gets the LoginOk of its Login in this step
LoginSucceeds(c) == pc[c] = "attach_init" /\ pc'[c] = "write" /\ resp'[c].msg = LoginOk

\* C5: a Login that succeeds adds exactly one mirror and registers it under the
\* requested cluster identity, and every key of the registry is the identity its
\* mirror was built for and its token was signed with
C5_OneMirrorUnderItsIdentity ==
    /\ [](\A name \in DOMAIN clusters :
            /\ clusters[name] \in DOMAIN mirrors
            /\ BuiltFor(mirrors[clusters[name]], name))
    /\ [][\A c \in Conns :
            LoginSucceeds(c) =>
                /\ Len(mirrors') = Len(mirrors) + 1
                /\ SubSeq(mirrors', 1, Len(mirrors)) = mirrors
                /\ AttachName \in DOMAIN clusters'
                /\ clusters'[AttachName] = Len(mirrors')
                /\ \A name \in DOMAIN clusters' \ {AttachName} :
                      name \in DOMAIN clusters /\ clusters'[name] = clusters[name]]_vars

\* a Login has its LoginOk and its mirror is the one the registry gives for the
\* attached cluster
C5_Witness ==
    \E c \in Conns :
        /\ pc[c] = "write"
        /\ resp[c].msg = LoginOk
        /\ AttachName \in DOMAIN clusters
        /\ clusters[AttachName] = loc[c].mirror

(***************************************************************************)
(* C6.                                                                     *)
(***************************************************************************)
\* the watch tasks that run for the cluster called name
TasksOf(name) == {t \in DOMAIN mirrors : mirrors[t].name = name /\ mirrors[t].running}

C7_RegistryLockOnlyForLookup ==
    \A c \in Conns : pc[c] \in {"pods_snapshot", "env_snapshot"} => clusLock /= c

(***************************************************************************)
(* C8.                                                                     *)
(***************************************************************************)
\* the steps of a Login that call the network or do I/O: reading credentials,
\* describing the cluster, signing the token and building the client, starting
\* the reflector, writing the reply
LoginIoPcs == {"attach_sdk", "attach_describe", "attach_token", "attach_init", "write"}

\* C8: a Login that is in a network or I/O call holds neither the lock of the
\* sessions nor the lock of the registry
C8_NoLockAcrossLoginIo ==
    \A c \in Conns :
        (cur[c].req.kind = "Login" /\ pc[c] \in LoginIoPcs) =>
            sessLock /= c /\ clusLock /= c

\* a Login is describing the cluster or signing the token while the Login of
\* another connection is about to take the lock of the sessions, which is free
C8_Witness ==
    \E c, d \in Conns :
        /\ c /= d
        /\ cur[c].req.kind = "Login"
        /\ pc[c] \in {"attach_describe", "attach_token"}
        /\ pc[d] = "login_lock"
        /\ sessLock = 0
        /\ clusLock = 0

(***************************************************************************)
(* C9.                                                                     *)
(***************************************************************************)
\* the initial listing has been applied to the store of mirror m
InitialListed(m) == \E i \in 1..Len(m.hist) : m.hist[i].type = "InitDone"

\* C9: a Login has its LoginOk only when the store of the mirror it attached
\* holds the initial listing
C9_LoginOkAfterInitialListing ==
    \A c \in Conns :
        (cur[c].req.kind = "Login" /\ pc[c] = "write" /\ resp[c].msg = LoginOk) =>
            InitialListed(mirrors[loc[c].mirror])

(***************************************************************************)
(* C10.                                                                    *)
(***************************************************************************)
\* the watch stream of the attached mirror has yielded an error
Errored == Len(mirrors) >= 1 /\ mirrors[1].warned > 0

\* the store of the attached mirror holds the cluster's pods as they were after
\* the k-th change or later, and its task is running
Reflects(k) ==
    /\ Len(mirrors) >= 1
    /\ mirrors[1].running
    /\ mirrors[1].wstate = "Watching"
    /\ ~mirrors[1].writing
    /\ mirrors[1].rv >= k
    /\ mirrors[1].objs = ApiObjsAt(mirrors[1].rv)

MirrorReads == {req \in PodsReqs : req.cluster = None /\ req.namespace = None}

MirrorNext ==
    \/ \E req \in WatchLogins : ReadRequestUpTo(WatchClient, req, MaxReqs + 1)
    \/ \E c \in Conns : \E req \in MirrorReads : ReadRequestUpTo(c, req, MaxReqs + 1)
    \/ LoginStore(WatchClient)
    \/ AttachGet(WatchClient)
    \/ AttachSdkConfig(WatchClient)
    \/ AttachDescribe(WatchClient)
    \/ AttachToken(WatchClient)
    \/ AttachInit(WatchClient)
    \/ \E c \in Conns : PodsLock(c) \/ PodsServe(c) \/ WriteOk(c)
    \/ \E t \in DOMAIN mirrors : TaskStep(t) \/ TaskError(t)
    \/ \E ev \in ApiEvents : ApiChangeUpTo(ev, MaxApiEvents + 1)

MirrorSpec == Init /\ [][MirrorNext]_vars

(***************************************************************************)
(* C11.                                                                    *)
(***************************************************************************)
\* the index of the last InitDone in history h (0 when there is none)
RECURSIVE LastInitDone(_)
LastInitDone(h) ==
    IF h = <<>> THEN 0
    ELSE IF h[Len(h)].type = "InitDone" THEN Len(h)
    ELSE LastInitDone(SubSeq(h, 1, Len(h) - 1))

\* the events applied to mirror m since its last listing
WatchTail(m) == SubSeq(m.hist, LastInitDone(m.hist) + 1, Len(m.hist))

\* the position in the upstream sequence of the last change applied to mirror m
AppliedRv(m) == IF m.writing THEN m.rv - 1 ELSE m.rv

\* mirror m has listed and now follows the watch
Following(m) ==
    /\ m.wstate = "Watching"
    /\ LastInitDone(m.hist) > 0
    /\ ~(m.writing /\ m.pend.type = "InitDone")

\* connection c reads the snapshot in this step
TakesSnapshot(c) == pc[c] \in {"pods_snapshot", "env_snapshot"} /\ pc'[c] = "write"

\* C11: the changes applied to a mirror since its listing are consecutive
\* changes of the upstream sequence, in upstream order; events are added to a
\* mirror's history one at a time, at its end; and a reader's snapshot is the
\* store after the whole history applied so far, so that of two snapshots the
\* later one is the store after an equal or longer prefix
C11_AppliedInUpstreamOrder ==
    /\ [](\A t \in DOMAIN mirrors :
            Following(mirrors[t]) =>
                LET m == mirrors[t]
                    n == Len(WatchTail(m))
                IN /\ n <= AppliedRv(m)
                   /\ WatchTail(m) = SubSeq(apiLog, AppliedRv(m) - n + 1, AppliedRv(m)))
    /\ [][\A t \in DOMAIN mirrors :
            \/ mirrors'[t].hist = mirrors[t].hist
            \/ /\ Len(mirrors'[t].hist) = Len(mirrors[t].hist) + 1
               /\ SubSeq(mirrors'[t].hist, 1, Len(mirrors[t].hist)) = mirrors[t].hist]_vars
    /\ [][\A c \in Conns :
            TakesSnapshot(c) =>
                Range(loc'[c].snap) =
                    StoredSet(FoldEvents(EmptyStore, mirrors[loc[c].mirror].hist).objs)]_vars

\* two readers hold different snapshots of a mirror that has applied two
\* changes after its listing
C11_Witness ==
    \E c, d \in Conns :
        /\ HasSnapshot(c)
        /\ HasSnapshot(d)
        /\ loc[c].mirror = loc[d].mirror
        /\ Range(loc[c].snap) /= Range(loc[d].snap)
        /\ Len(WatchTail(mirrors[loc[c].mirror])) >= 2
        /\ Following(mirrors[loc[c].mirror])

(***************************************************************************)
(* C12.                                                                    *)
(***************************************************************************)
\* the loop of the stream's reader has ended on a failure of a read or a write
WireFailed ==
    wire.pcw = "closed" /\ wire.outcome \in {"Io", "BinDecode", "IoOnWrite"}

\* the peer has sent all it had to send and the connection did not break
Intact == wire.peer = <<>> /\ ~wire.reset

\* C12: once a read or write has failed the loop of that connection reads and
\* writes nothing more; the failure changes nothing of the daemon's registry
\* or of the other connections; and the causes are told apart by the kind of
\* the error: an undecodable payload is a decode error, a broken or truncated
\* stream is an I/O error, and a malformed length is neither of the two
C12_WireFailureFatalAndKinds ==
    /\ [][wire.pcw = "closed" =>
            /\ wire'.pcw = "closed"
            /\ wire'.got = wire.got
            /\ wire'.replies = wire.replies]_vars
    /\ [][wire' /= wire => UNCHANGED daemonVars]_vars
    /\ [](WireFailed =>
            /\ (wire.cause = "none" => wire.outcome \in {"Io", "IoOnWrite"})
            /\ (wire.cause = "payload" /\ Intact => wire.outcome = "BinDecode")
            /\ (wire.cause = "length" /\ Intact =>
                    wire.outcome \notin {"Io", "IoOnWrite", "BinDecode"}))

(***************************************************************************)
(* C13.                                                                    *)
(***************************************************************************)
\* the bytes buf are the beginning of a frame, and not a whole frame
MidFrame(buf) ==
    /\ buf /= <<>>
    /\ \/ Len(buf) < 4
       \/ Len(buf) < 4 + FromBE(SubSeq(buf, 1, 4))

\* C13: when the peer has closed the stream in the middle of a frame, inside
\* the length prefix or inside the payload, read does not report the end of
\* the stream
C13_TruncatedFrameIsError ==
    (wire.pcw = "closed" /\ wire.outcome = "None") => ~MidFrame(wire.inbuf)

(***************************************************************************)
(* C14.                                                                    *)
(***************************************************************************)
\* the reader's loop takes a step at the top of the loop, when the peer has
\* closed the stream and no byte of a new frame has arrived
ReadsAtCleanClose ==
    /\ wire.pcw = "read"
    /\ wire.eof
    /\ ~wire.reset
    /\ wire.inbuf = <<>>
    /\ wire'.pcw /= "read"

\* C14: a read at a clean close reports the end of the stream, not an error;
\* the loop ends, and it writes no response then or later
C14_CleanCloseIsEndOfStream ==
    /\ [][ReadsAtCleanClose =>
            /\ wire'.outcome = "None"
            /\ wire'.pcw = "closed"
            /\ wire'.replies = wire.replies]_vars
    /\ [][wire.pcw = "closed" => wire'.pcw = "closed" /\ wire'.replies = wire.replies]_vars

\* the loop has answered two requests and ended at a clean close
C14_Witness ==
    /\ wire.pcw = "closed"
    /\ wire.outcome = "None"
    /\ wire.eof
    /\ wire.inbuf = <<>>
    /\ Len(wire.got) = 2
    /\ wire.replies = 2

(***************************************************************************)
(* C15.                                                                    *)
(***************************************************************************)
\* the reader cannot read more of what has arrived
ReaderWaits ==
    /\ wire.pcw = "read"
    /\ Connected
    /\ read_message(wire.T, wire.inbuf, wire.eof).kind = "Pending"

\* C15: on a stream written with write, the values read are the values
\* written, in order; and when all the frames have arrived the reader has read
\* every one of them and meets the end of the stream, never an error
C15_WriteThenReadIsIdentity ==
    wire.cause = "none" =>
        /\ Len(wire.got) <= Len(wire.sent)
        /\ \A i \in 1..Len(wire.got) : SameMsg(wire.got[i], wire.sent[i])
        /\ (Intact /\ wire.pcw = "closed" /\ wire.outcome /= "IoOnWrite" =>
                wire.outcome = "None" /\ Len(wire.got) = Len(wire.sent))
        /\ (Intact /\ ReaderWaits =>
                wire.inbuf = <<>> /\ Len(wire.got) = Len(wire.sent))

\* a list of environment variables and an Error with an empty message, written
\* back to back, have both been read and the stream has ended
C15_Witness ==
    /\ wire.cause = "none"
    /\ wire.T = "Response"
    /\ wire.pcw = "closed"
    /\ wire.outcome = "None"
    /\ Len(wire.got) = 2
    /\ wire.got[1].variant = "EnvVars"
    /\ Len(wire.got[1].vals[1]) = 3
    /\ wire.got[2].variant = "Error"

(***************************************************************************)
(* C16.                                                                    *)
(***************************************************************************)
HandlerPcs ==
    {"ping", "version", "pods_lock", "pods_snapshot", "env_lock", "env_snapshot",
     "login_lock", "attach_get", "attach_sdk", "attach_describe", "attach_token",
     "attach_init"}

ResultKinds == {"Pong", "Version", "Pods", "EnvVars", "LoginOk"}

\* in this step the handler of connection c ends without a result: the cluster
\* is unknown, the pod is not found, the profile has no session or the attach
\* has failed
EndsInDomainError(c) ==
    /\ pc[c] \in HandlerPcs
    /\ pc'[c] \notin HandlerPcs
    /\ resp'[c].msg.kind \notin ResultKinds

\* in this step the Error reply of connection c is written to its stream
ErrorWritten(c) ==
    /\ pc[c] = "write"
    /\ resp[c].msg.kind = "Error"
    /\ written'[c] /= written[c]

\* C16: a handler that ends in a domain error hands an Error reply to the
\* connection loop, and once that reply is written the connection is open and
\* back at reading its next request
C16_DomainErrorKeepsConnection ==
    [][\A c \in Conns :
         /\ EndsInDomainError(c) =>
                pc'[c] = "write" /\ resp'[c].msg.kind = "Error"
         /\ ErrorWritten(c) => pc'[c] = "read"]_vars

(***************************************************************************)
(* C17.                                                                    *)
(***************************************************************************)
\* the cluster a request is about: the one it names, else the configured default
NamedCluster(req) == IF IsSome(req.cluster) THEN Unwrap(req.cluster) ELSE default_cluster

\* connection c looks its cluster up in the registry in this step
LooksUp(c) == pc[c] \in {"pods_lock", "env_lock"} /\ pc'[c] /= pc[c]

\* C17: whatever the registry holds, a Pods or Env request whose cluster, named
\* or default, was never attached is answered by an Error whose message
\* contains that cluster name
C17_UnknownClusterNamed ==
    [][\A c \in Conns :
         LooksUp(c) /\ NamedCluster(cur[c].req) \notin DOMAIN clusters =>
             /\ pc'[c] = "write"
             /\ resp'[c].msg.kind = "Error"
             /\ NamedCluster(cur[c].req) \in Range(resp'[c].msg.message)]_vars

\* with one cluster attached, an Env request that names no cluster has been
\* resolved to a default that was never attached and got the Error naming it
C17_Witness ==
    \E c \in Conns :
        /\ pc[c] = "write"
        /\ cur[c].req.kind = "Env"
        /\ cur[c].req.cluster = None
        /\ default_cluster \notin DOMAIN clusters
        /\ DOMAIN clusters /= {}
        /\ resp[c].msg = ErrorResp(<<"cluster not found: ", default_cluster>>)

(***************************************************************************)
(* The bodies of handle_pods and handle_env on a snapshot of the attached  *)
(* cluster: the snapshot and the request are drawn from bounded sets, and  *)
(* one step computes the response as the handler does.                     *)
(***************************************************************************)
MaxSnapshot == 3

\* the pods a snapshot can hold: those of PodTable and three more
SnapshotPods ==
    PodTable \o
    << \* 4: a pod without status and without containers
       [name |-> Some("b"), namespace |-> Some("kube-system"),
        status |-> None,
        spec |-> Some([containers |-> <<>>])],
       \* 5: a pending pod whose containers declare no variable
       [name |-> Some("a"), namespace |-> Some("default"),
        status |-> Some([phase |-> Some("Pending"),
                         conditions |-> None,
                         container_statuses |-> None]),
        spec |-> Some([containers |-> <<Container(None), Container(Some(<<>>))>>])],
       \* 6: a pod that declares a name twice, once without a literal value
       [name |-> Some("a"), namespace |-> Some("kube-system"),
        status |-> Some([phase |-> Some("Running"),
                         conditions |-> Some(<<Cond("Ready", "True")>>),
                         container_statuses |-> Some(<<CStatus(0, None, None)>>)]),
        spec |-> Some([containers |->
                         <<Container(Some(<<EnvVar("B", Some("1")),
                                            EnvVar("A", Some("2"))>>)),
                           Container(Some(<<EnvVar("A", None)>>))>>])] >>

\* the store holds one object per key, and a snapshot lists the objects of the
\* store in the order of the map's iteration
Snapshots ==
    {s \in UNION {[1..n -> 1..Len(SnapshotPods)] : n \in 0..MaxSnapshot} :
        \A i, j \in 1..Len(s) :
            i /= j => <<SnapshotPods[s[i]].namespace, SnapshotPods[s[i]].name>> /=
                      <<SnapshotPods[s[j]].namespace, SnapshotPods[s[j]].name>>}
SnapshotOf(s) == [i \in 1..Len(s) |-> SnapshotPods[s[i]]]

ProbePodsReqs ==
    {PodsReq(Some(AttachName), ns, fo) :
        ns \in {None, Some("default"), Some("kube-system"), Some("observability")},
        fo \in BOOLEAN}
ProbeContainers == {None, Some("app")}
ProbeFilters == {None, Some("^A")}
ProbeEnvReqs ==
    {EnvReq(Some(AttachName), r[1], r[2], r[3], r[4]) :
        r \in {"default", "kube-system", "observability"} \X {"a", "b"}
              \X ProbeContainers \X ProbeFilters}

Probe(req, pods) == [kind |-> req.kind, req |-> req, pods |-> pods, done |-> FALSE]

HandlerInit ==
    /\ probe \in {Probe(req, SnapshotOf(s)) :
                     req \in ProbePodsReqs \cup ProbeEnvReqs, s \in Snapshots}
    /\ wire = NoWire
    /\ sso = NoSso
    /\ srv = Serving
    /\ pc = [c \in Conns |-> "read"]
    /\ cur = [c \in Conns |-> [seq |-> 0, req |-> NoReq]]
    /\ resp = [c \in Conns |-> [seq |-> 0, msg |-> NoResp]]
    /\ loc = [c \in Conns |-> NoLoc]
    /\ nread = [c \in Conns |-> 0]
    /\ written = [c \in Conns |-> <<>>]
    /\ aws_sessions = EmptyMap
    /\ clusters = EmptyMap
    /\ default_cluster = AttachName
    /\ sessLock = 0
    /\ clusLock = 0
    /\ installed = FALSE
    /\ mirrors = <<>>
    /\ apiLog = <<>>
    /\ nerrs = 0

\* handle_pods from the snapshot to the response
ProbePods ==
    /\ probe.kind = "Pods"
    /\ ~probe.done
    /\ probe' = [kind |-> "Pods", req |-> probe.req, pods |-> probe.pods, done |-> TRUE,
                 out |-> PodsResp(PodsResult(AttachName, probe.req, probe.pods))]
    /\ UNCHANGED <<daemonVars, wire, sso, srv>>

\* handle_env from the snapshot to the response
ProbeEnv ==
    /\ probe.kind = "Env"
    /\ ~probe.done
    /\ probe' = [kind |-> "Env", req |-> probe.req, pods |-> probe.pods, done |-> TRUE,
                 out |-> EnvResult(probe.req, probe.pods)]
    /\ UNCHANGED <<daemonVars, wire, sso, srv>>

HandlerNext == ProbePods \/ ProbeEnv
HandlerSpec == HandlerInit /\ [][HandlerNext]_vars

(***************************************************************************)
(* C18.                                                                    *)
(***************************************************************************)
\* the view of the i-th pod of the snapshot (pods is a snapshot, i an index)
ViewAt(pods, i) == from_pod(AttachName, pods[i])

\* view v is asked for by a Pods request
Selected(req, v) ==
    /\ (req.namespace /= None => v.namespace = Unwrap(req.namespace))
    /\ (req.failed_only =>
            v.phase = Some("Failed") \/ v.reason = Some("CrashLoopBackOff"))

\* the pods of the snapshot whose view is asked for
SelectedIn(req, pods) ==
    {i \in 1..Len(pods) : ViewAt(pods, i) /= None /\ Selected(req, Unwrap(ViewAt(pods, i)))}

\* ascending (namespace, name) order
AscendingPods(vs) ==
    \A i, j \in 1..Len(vs) :
        i < j => \/ StrLess(vs[i].namespace, vs[j].namespace)
                 \/ vs[i].namespace = vs[j].namespace /\ ~StrLess(vs[j].name, vs[i].name)

\* C18: the answer to a Pods request on a snapshot of an attached cluster is a
\* Pods list that holds exactly the views of the snapshot's pods that match the
\* namespace, when one is given, and, under failed_only, have phase Failed or
\* reason CrashLoopBackOff, in ascending (namespace, name) order; when no pod
\* matches, the list is empty and the answer is no Error
C18_PodsFilteredAndSorted ==
    probe.kind = "Pods" /\ probe.done =>
        LET sel == SelectedIn(probe.req, probe.pods) IN
        /\ probe.out.kind = "Pods"
        /\ Len(probe.out.pods) = Cardinality(sel)
        /\ Range(probe.out.pods) = {Unwrap(ViewAt(probe.pods, i)) : i \in sel}
        /\ AscendingPods(probe.out.pods)
        /\ (sel = {} => probe.out = PodsResp(<<>>))

\* of three pods, failed_only kept the crash-looping one and the failed one and
\* left the healthy one out, and the list is in order
C18_Witness ==
    /\ probe.kind = "Pods"
    /\ probe.done
    /\ probe.req.failed_only
    /\ probe.req.namespace = None
    /\ Len(probe.pods) = 3
    /\ probe.pods[1].namespace = Some("observability")
    /\ Len(probe.out.pods) = 2
    /\ probe.out.pods[1].namespace = "default"
    /\ probe.out.pods[1].reason = Some("CrashLoopBackOff")
    /\ probe.out.pods[2].namespace = "observability"
    /\ probe.out.pods[2].phase = Some("Failed")

(***************************************************************************)
(* C19.                                                                    *)
(***************************************************************************)
\* the pods of the snapshot an Env request names
Located(req, pods) ==
    {i \in 1..Len(pods) :
        pods[i].namespace = Some(req.namespace) /\ pods[i].name = Some(req.pod)}

\* the places of a pod's spec where a variable is declared: container, position
DeclaredAt(pod) ==
    UNION {{<<i, j>> : j \in 1..Len(UnwrapOr(Unwrap(pod.spec).containers[i].env, <<>>))} :
              i \in 1..Len(Unwrap(pod.spec).containers)}
DeclaredVar(pod, ij) == Unwrap(Unwrap(pod.spec).containers[ij[1]].env)[ij[2]]

\* the list holds each variable as often as the pod declares it
ListsDeclared(list, pod) ==
    \A e \in Range(list) \cup {DeclaredVar(pod, ij) : ij \in DeclaredAt(pod)} :
        Cardinality({k \in 1..Len(list) : list[k] = e}) =
        Cardinality({ij \in DeclaredAt(pod) : DeclaredVar(pod, ij) = e})

AscendingNames(list) ==
    \A i, j \in 1..Len(list) : i < j => ~StrLess(list[j].name, list[i].name)

\* C19: the answer to an Env request whose pod is in the snapshot lists the
\* variables declared by all the containers of that pod, in ascending order of
\* name, and is the same whatever the request's container and filter_regex
C19_EnvOfAllContainersSorted ==
    probe.kind = "Env" /\ probe.done /\ Located(probe.req, probe.pods) /= {} =>
        LET pod == probe.pods[CHOOSE i \in Located(probe.req, probe.pods) : TRUE] IN
        /\ probe.out.kind = "EnvVars"
        /\ ListsDeclared(probe.out.vars, pod)
        /\ AscendingNames(probe.out.vars)
        /\ \A ct \in ProbeContainers, f \in ProbeFilters :
               EnvResult([probe.req EXCEPT !.container = ct, !.filter_regex = f],
                         probe.pods) = probe.out

\* a pod whose first container declares B=2 and whose second declares A=1 is
\* asked for with a container and a filter: both variables come back, A first
C19_Witness ==
    /\ probe.kind = "Env"
    /\ probe.done
    /\ probe.req.container = Some("app")
    /\ probe.req.filter_regex = Some("^A")
    /\ Len(probe.pods) = 3
    /\ probe.out = EnvVarsResp(<<EnvVar("A", Some("1")), EnvVar("B", Some("2"))>>)

(***************************************************************************)
(* C20.                                                                    *)
(***************************************************************************)
\* the pod has no container, or none of its containers declares a variable
DeclaresNothing(pod) ==
    \A i \in 1..Len(Unwrap(pod.spec).containers) :
        UnwrapOr(Unwrap(pod.spec).containers[i].env, <<>>) = <<>>

\* C20: an Env request for a pod of the mirror that has no container, or whose
\* containers declare no variable, is answered by an empty EnvVars list and
\* not by an Error
C20_NoVariablesIsEmptyList ==
    probe.kind = "Env" /\ probe.done =>
        \A i \in Located(probe.req, probe.pods) :
            DeclaresNothing(probe.pods[i]) => probe.out = EnvVarsResp(<<>>)

\* a pod without containers was found among three and the answer is the
\* empty list
C20_Witness ==
    /\ probe.kind = "Env"
    /\ probe.done
    /\ Len(probe.pods) = 3
    /\ \E i \in Located(probe.req, probe.pods) :
           Unwrap(probe.pods[i].spec).containers = <<>>
    /\ probe.out = EnvVarsResp(<<>>)

(***************************************************************************)
(* C21.                                                                    *)
(***************************************************************************)
ReadOnlyKinds == {"Ping", "Version", "Pods", "Env"}

\* connection c takes a step while it serves a request of a read-only kind
ReadOnlyStep(c) == cur[c].req.kind \in ReadOnlyKinds /\ pc'[c] /= pc[c]

\* C21: every Ping is answered by a Pong, the first as the N-th, and no step of
\* a Ping, Version, Pods or Env request changes the sessions map, the clusters
\* map or a mirror
C21_PingsAndReadsKeepState ==
    [][\A c \in Conns :
         ReadOnlyStep(c) =>
             /\ aws_sessions' = aws_sessions
             /\ clusters' = clusters
             /\ mirrors' = mirrors
             /\ (pc[c] = "ping" =>
                     /\ pc'[c] = "write"
                     /\ resp'[c] = [seq |-> cur[c].seq, msg |-> Pong])]_vars

\* the second Ping of a connection is about to be answered by a Pong, the
\* first having been answered
C21_Witness ==
    \E c \in Conns :
        /\ pc[c] = "write"
        /\ cur[c] = [seq |-> 2, req |-> PingReq]
        /\ resp[c] = [seq |-> 2, msg |-> Pong]
        /\ written[c] = <<1>>

(***************************************************************************)
(* C22.                                                                    *)
(***************************************************************************)
\* C22: no handler panics, and a handler that has returned has returned a
\* result or an Error that carries a message
C22_HandlerNeverPanics ==
    \A c \in Conns :
        /\ pc[c] /= "panicked"
        /\ pc[c] = "write" =>
               \/ resp[c].msg.kind \in ResultKinds
               \/ resp[c].msg.kind = "Error" /\ resp[c].msg.message /= <<>>

(***************************************************************************)
(* C23.                                                                    *)
(***************************************************************************)
\* in this step the cluster lookup or the token derivation of c's Login fails
AttachFails(c) ==
    /\ pc[c] \in {"attach_describe", "attach_token"}
    /\ pc'[c] \notin {pc[c], "attach_token", "attach_init"}

\* C23: a failure of the cluster lookup or of the token derivation ends the
\* attach of its Login with an Error response, registers no mirror and starts no
\* watch task; and an attach is only ever started by a Login request that a
\* connection has just read, never again on the daemon's own initiative
C23_AttachFailureIsFinal ==
    [][/\ \A c \in Conns :
            /\ AttachFails(c) =>
                   /\ pc'[c] = "write"
                   /\ resp'[c].msg.kind = "Error"
                   /\ clusters' = clusters
                   /\ mirrors' = mirrors
            /\ (pc'[c] = "attach_get" /\ pc[c] /= "attach_get") => pc[c] = "login_lock"
            /\ (pc'[c] = "login_lock" /\ pc[c] /= "login_lock") =>
                   /\ pc[c] = "read"
                   /\ nread'[c] = nread[c] + 1
                   /\ cur'[c].req.kind = "Login"
            /\ (pc[c] = "write" /\ pc'[c] /= "write") => pc'[c] \in {"read", "closed"}
       /\ Len(mirrors') > Len(mirrors) => \E c \in Conns : pc[c] = "attach_init"]_vars

\* the token derivation of a Login has failed: the Error is about to be
\* written, the session is stored, and there is no mirror and no watch task
C23_Witness ==
    \E c \in Conns :
        /\ pc[c] = "write"
        /\ cur[c].req.kind = "Login"
        /\ loc[c].sdk_config /= None
        /\ resp[c].msg.kind = "Error"
        /\ cur[c].req.name \in DOMAIN aws_sessions
        /\ clusters = EmptyMap
        /\ mirrors = <<>>

(***************************************************************************)
(* kopsctl login: kops_aws_sso::login_device_flow and cmd::login::execute. *)
(* The broker's answers are chosen at each call.  Durations are seconds.   *)
(***************************************************************************)
MaxInterval == 3
MaxWindow == 7

\* the slow-down step of the poll loop
SlowDownStep == 5

\* SsoLoginConfig and the profile name given to execute
SsoConfigs ==
    {[name |-> "dev", region |-> "us-west-2", account_id |-> "111111111111",
      role_name |-> "admin"],
     [name |-> "prod", region |-> "eu-west-1", account_id |-> "333333333333",
      role_name |-> "viewer"]}

\* the locals of one run of execute
SsoStart(cfg) ==
    [pcs |-> "register", cfg |-> cfg, device_auth |-> None,
     interval0 |-> 0, expires_in |-> 0,       \* device_auth.interval(), expires_in()
     interval_secs |-> 0, max_attempts |-> 0,
     polls |-> 0,                             \* create_token calls made
     slowdowns |-> 0,                         \* SlowDownException answers received
     last |-> "none",                         \* the answer to the last create_token
     slept |-> None,                          \* the sleep that followed that answer
     access_token |-> None,
     callbacks |-> <<>>,                      \* on_verification calls, by URL shown
     exchanges |-> 0,                         \* get_role_credentials calls made
     result |-> "none", error |-> "",         \* what login_device_flow returned
     session |-> None,
     sent |-> None]                           \* the Login request given to send_request

\* for comparison: a failure that would be noted while the flow goes on
SsoFailNoted(st, err) == [st EXCEPT !.pcs = "exchange", !.result = "error", !.error = err]
\* return Err(..) out of login_device_flow; execute returns it with `?`
SsoFail(st, err) == [st EXCEPT !.pcs = "done", !.result = "error", !.error = err]

\* register_client().send(), client_id() and client_secret()
RegisterFailures ==
    {"failed to register OIDC client", "missing client_id from register_client",
     "missing client_secret from register_client"}

RegisterClient ==
    /\ sso.pcs = "register"
    /\ \/ sso' = [sso EXCEPT !.pcs = "start_auth"]
       \/ \E err \in RegisterFailures : sso' = SsoFail(sso, err)
    /\ UNCHANGED <<daemonVars, wire, probe, srv>>

\* what start_device_authorization().send() can give: an error, or an output
\* with or without each of its optional fields
DeviceAuth(complete, plain, device_code, user_code, interval, expires_in) ==
    [ok |-> TRUE, verification_uri_complete |-> complete, verification_uri |-> plain,
     device_code |-> device_code, user_code |-> user_code,
     interval |-> interval, expires_in |-> expires_in]
DeviceAuthError ==
    [ok |-> FALSE, verification_uri_complete |-> None, verification_uri |-> None,
     device_code |-> None, user_code |-> None, interval |-> 0, expires_in |-> 0]
DeviceAuthOutputs ==
    {DeviceAuthError}
    \cup {DeviceAuth(Some("complete"), Some("plain"), Some("dc"), Some("uc"), i, w) :
             i \in 0..MaxInterval, w \in 0..MaxWindow}
    \cup {DeviceAuth(c, p, Some("dc"), Some("uc"), 1, MaxWindow) :
             c \in {None, Some("complete")}, p \in {None, Some("plain")}}
    \cup {DeviceAuth(Some("complete"), Some("plain"), d, u, 1, MaxWindow) :
             d \in {None, Some("dc")}, u \in {None, Some("uc")}}

\* let max_attempts = expires_in / interval_secs + 1, for interval_secs > 0
MaxAttempts(expires_in, interval_secs) == (expires_in \div interval_secs) + 1

\* device_auth.verification_uri_complete().ok_or(anyhow!("missing verification URI"))?
UriMissing(out) == out.verification_uri_complete = None

\* start_device_authorization, the fields of its output, the call of
\* on_verification and the computation of max_attempts, which divides by the
\* interval: a zero interval is a panic ("attempt to divide by zero")
StartDeviceAuthorization ==
    /\ sso.pcs = "start_auth"
    /\ \E out \in DeviceAuthOutputs :
         sso' =
           IF ~out.ok THEN SsoFail(sso, "failed to start device authorization")
           ELSE IF UriMissing(out)
           THEN SsoFail([sso EXCEPT !.device_auth = Some(out)], "missing verification URI")
           ELSE IF out.device_code = None
           THEN SsoFail([sso EXCEPT !.device_auth = Some(out)], "missing device_code")
           ELSE IF out.user_code = None
           THEN SsoFail([sso EXCEPT !.device_auth = Some(out)], "missing user_code")
           ELSE IF out.interval = 0
           THEN [sso EXCEPT !.pcs = "done", !.result = "panic",
                            !.device_auth = Some(out),
                            !.expires_in = out.expires_in,
                            !.callbacks = Append(@, "complete")]
           ELSE [sso EXCEPT !.pcs = "poll",
                            !.device_auth = Some(out),
                            !.interval0 = out.interval,
                            !.interval_secs = out.interval,
                            !.expires_in = out.expires_in,
                            !.callbacks = Append(@, "complete"),
                            !.max_attempts = MaxAttempts(out.expires_in, out.interval)]
    /\ UNCHANGED <<daemonVars, wire, probe, srv>>

\* the answers of create_token().send(): Ok with or without an access token,
\* or an error with its code
TokenAnswers ==
    {"Token", "NoToken", "AuthorizationPendingException", "SlowDownException",
     "ExpiredTokenException", "AccessDeniedException", "Unknown"}

\* for comparison: a loop that would go on polling after an expired code
ExpiredRetried(st) == [st EXCEPT !.slept = Some(st.interval_secs)]
\* "ExpiredTokenException" => return Err(..)
OnExpired(st) ==
    SsoFail(st, "Device authorization expired (ExpiredTokenException)")

\* for comparison: a slow-down that would sleep before it lengthens the interval
SlowDownSleepsFirst(st) ==
    [st EXCEPT !.slept = Some(st.interval_secs),
               !.interval_secs = st.interval_secs + SlowDownStep,
               !.slowdowns = @ + 1]
\* "SlowDownException" => interval_secs += 5; sleep(interval_secs); continue
OnSlowDown(st) ==
    [st EXCEPT !.interval_secs = st.interval_secs + SlowDownStep,
               !.slept = Some(st.interval_secs + SlowDownStep),
               !.slowdowns = @ + 1]

\* for comparison: a loop that would wait for a token-bearing answer
NoTokenRetried(st) == [st EXCEPT !.slept = Some(st.interval_secs)]
\* Ok(out) without access_token: break, then access_token.ok_or_else(..)?
OnNoToken(st) == SsoFail(st, "did not obtain access_token before timeout")

\* one pass of `for _ in 0..max_attempts`: the call and the match on its result
CreateToken ==
    /\ sso.pcs = "poll"
    /\ sso.polls < sso.max_attempts
    /\ \E res \in TokenAnswers :
         LET st == [sso EXCEPT !.polls = @ + 1, !.last = res, !.slept = None] IN
         sso' =
           CASE res = "Token" ->
                    [st EXCEPT !.access_token = Some("token"), !.pcs = "exchange"]
             [] res = "NoToken" -> OnNoToken(st)
             [] res = "AuthorizationPendingException" ->
                    [st EXCEPT !.slept = Some(st.interval_secs)]
             [] res = "SlowDownException" -> OnSlowDown(st)
             [] res = "ExpiredTokenException" -> OnExpired(st)
             [] OTHER -> SsoFail(st, "CreateToken failed")
    /\ UNCHANGED <<daemonVars, wire, probe, srv>>

\* the range 0..max_attempts is exhausted: access_token is None
LoopExhausted ==
    /\ sso.pcs = "poll"
    /\ sso.polls >= sso.max_attempts
    /\ sso' = SsoFail(sso, "did not obtain access_token before timeout")
    /\ UNCHANGED <<daemonVars, wire, probe, srv>>

\* get_role_credentials().send() and the fields of role_credentials()
ExchangeFailures ==
    {"get_role_credentials failed", "missing roleCredentials", "missing accessKeyId",
     "missing secretAccessKey", "missing sessionToken"}

\* AwsSsoSession { credentials, account_id, role_name, expires_at }
SsoSession(cfg, expiration) ==
    [access_key_id |-> "AKIA1", secret_access_key |-> "secret1",
     session_token |-> Some("token1"),
     account_id |-> cfg.account_id, role_name |-> cfg.role_name,
     expires_at |-> expiration]

GetRoleCredentials ==
    /\ sso.pcs = "exchange"
    /\ \/ \E expiration \in {600} :
            sso' = [sso EXCEPT !.exchanges = @ + 1, !.pcs = "returned",
                               !.result = "session",
                               !.session = Some(SsoSession(sso.cfg, expiration))]
       \/ \E err \in ExchangeFailures :
            sso' = SsoFail([sso EXCEPT !.exchanges = @ + 1], err)
    /\ UNCHANGED <<daemonVars, wire, probe, srv>>

\* execute after login_device_flow returned Ok: the Login request is built
\* from the session and given to send_request
LoginOf(cfg, session) ==
    LoginReq(cfg.name, Some(cfg.region), cfg.account_id, cfg.role_name,
             session.access_key_id, session.secret_access_key,
             Unwrap(session.session_token), session.expires_at)

SendLogin ==
    /\ sso.pcs = "returned"
    /\ sso' = [sso EXCEPT !.pcs = "done",
                          !.sent = Some(LoginOf(sso.cfg, Unwrap(sso.session)))]
    /\ UNCHANGED <<daemonVars, wire, probe, srv>>

SsoStep ==
    \/ RegisterClient
    \/ StartDeviceAuthorization
    \/ CreateToken
    \/ LoopExhausted
    \/ GetRoleCredentials
    \/ SendLogin

\* the daemon's side of the login: the connection of kopsctl carries the one
\* request that send_request wrote
LoginClient == CHOOSE c \in Conns : \A d \in Conns : c <= d

ReadSentLogin ==
    /\ sso.sent /= None
    /\ nread[LoginClient] = 0
    /\ ReadRequest(LoginClient, Unwrap(sso.sent))

LoginFlowInit ==
    /\ sso \in {SsoStart(cfg) : cfg \in SsoConfigs}
    /\ srv = Serving
    /\ wire = NoWire
    /\ probe = NoProbe
    /\ pc = [c \in Conns |-> "read"]
    /\ cur = [c \in Conns |-> [seq |-> 0, req |-> NoReq]]
    /\ resp = [c \in Conns |-> [seq |-> 0, msg |-> NoResp]]
    /\ loc = [c \in Conns |-> NoLoc]
    /\ nread = [c \in Conns |-> 0]
    /\ written = [c \in Conns |-> <<>>]
    /\ aws_sessions = EmptyMap
    /\ clusters = EmptyMap
    /\ default_cluster = AttachName
    /\ sessLock = 0
    /\ clusLock = 0
    /\ installed = FALSE
    /\ mirrors = <<>>
    /\ apiLog = <<>>
    /\ nerrs = 0

LoginFlowNext ==
    \/ SsoStep
    \/ ReadSentLogin
    \/ LoginStore(LoginClient)
    \/ AttachGet(LoginClient)
    \/ AttachSdkConfig(LoginClient)
    \/ AttachDescribe(LoginClient)
    \/ AttachToken(LoginClient)
    \/ AttachInit(LoginClient)
    \/ WriteOk(LoginClient)

\* every call of the broker returns, and the process of kopsctl runs on
LoginFlowSpec == LoginFlowInit /\ [][LoginFlowNext]_vars /\ WF_vars(SsoStep)

(***************************************************************************)
(* C24.                                                                    *)
(***************************************************************************)
\* a pass of the poll loop is made in this step and gets the answer res
Polled(res) == sso'.polls = sso.polls + 1 /\ sso'.last = res

\* C24: in the poll loop the interval is always the initial interval plus 5
\* seconds for every slow-down answer received; an authorization-pending answer
\* is followed by a sleep of the current interval, which it leaves unchanged; a
\* slow-down answer adds 5 seconds and is followed by a sleep of the new
\* interval; and the interval never decreases
C24_IntervalFollowsSlowDowns ==
    /\ [](sso.interval_secs = sso.interval0 + 5 * sso.slowdowns)
    /\ [][/\ sso'.interval_secs >= sso.interval_secs
          /\ Polled("AuthorizationPendingException") =>
                 /\ sso'.interval_secs = sso.interval_secs
                 /\ sso'.slept = Some(sso.interval_secs)
                 /\ sso'.slowdowns = sso.slowdowns
          /\ Polled("SlowDownException") =>
                 /\ sso'.interval_secs = sso.interval_secs + 5
                 /\ sso'.slept = Some(sso.interval_secs + 5)
                 /\ sso'.slowdowns = sso.slowdowns + 1]_vars

\* after two slow-down answers an authorization-pending answer was followed by
\* a sleep of the initial interval plus ten seconds
C24_Witness ==
    /\ sso.pcs = "poll"
    /\ sso.slowdowns = 2
    /\ sso.last = "AuthorizationPendingException"
    /\ sso.interval0 = 2
    /\ sso.interval_secs = 12
    /\ sso.slept = Some(12)

(***************************************************************************)
(* C25.                                                                    *)
(***************************************************************************)
TerminalAnswers == {"ExpiredTokenException", "AccessDeniedException", "Unknown"}

\* C25: once create_token has answered "expired" or any error other than
\* authorization pending and slow down, the login has returned an error, no
\* role-credential exchange has been made, and no further token request is made
C25_TerminalErrorsStopPolling ==
    /\ [](sso.pcs /= "none" /\ sso.last \in TerminalAnswers =>
             /\ sso.pcs = "done"
             /\ sso.result = "error"
             /\ sso.exchanges = 0
             /\ sso.session = None)
    /\ [][sso.last \in TerminalAnswers =>
             sso'.polls = sso.polls /\ sso'.exchanges = sso.exchanges]_vars

\* the third token request was answered "expired" and the login has failed
C25_Witness ==
    /\ sso.last = "ExpiredTokenException"
    /\ sso.polls = 3
    /\ sso.result = "error"
    /\ sso.exchanges = 0

(***************************************************************************)
(* C26.                                                                    *)
(***************************************************************************)
\* the device authorization was obtained and shown to the user
Authorizing == sso.pcs /= "none" /\ sso.callbacks /= <<>>

\* the least n such that n intervals of length b cover the window a
CeilDiv(a, b) == CHOOSE n \in 0..a : n * b >= a /\ \A m \in 0..(n - 1) : m * b < a

\* C26: for every validity window and initial interval the broker returns, the
\* bound of the poll loop is ceil(window / interval) + 1, computed once, and the
\* number of token requests never exceeds it
C26_PollsWithinCeilBound ==
    Authorizing =>
        /\ sso.result /= "panic"
        /\ sso.max_attempts = CeilDiv(sso.expires_in, sso.interval0) + 1
        /\ sso.polls <= sso.max_attempts

(***************************************************************************)
(* C27.                                                                    *)
(***************************************************************************)
\* C27: when a step of the login (Register, StartAuthorization, Poll, Exchange)
\* has failed, the login is over with an error: there is no session, no Login
\* request was given to the daemon, the daemon has read none, and its sessions
\* and clusters maps are as they were
C27_FailedLoginStoresNothing ==
    sso.pcs /= "none" /\ sso.result = "error" =>
        /\ sso.pcs = "done"
        /\ sso.error /= ""
        /\ sso.session = None
        /\ sso.sent = None
        /\ \A c \in Conns : nread[c] = 0
        /\ aws_sessions = EmptyMap
        /\ clusters = EmptyMap

\* the token was obtained after two polls and the exchange failed: nothing was
\* sent and the daemon holds nothing
C27_Witness ==
    /\ sso.result = "error"
    /\ sso.error = "missing roleCredentials"
    /\ sso.polls = 2
    /\ sso.exchanges = 1
    /\ sso.sent = None
    /\ aws_sessions = EmptyMap

(***************************************************************************)
(* C28.                                                                    *)
(***************************************************************************)
\* C28: whatever interval and validity window the broker returns and whatever
\* it answers to the token requests, as long as its calls return, the login
\* ends, and it ends with a session or with an error
C28_LoginTerminates == <>(sso.result \in {"session", "error"})

(***************************************************************************)
(* C29.                                                                    *)
(***************************************************************************)
\* the flow has returned to execute
FlowReturned == sso.pcs \in {"returned", "done"}

\* C29: the first successful token answer ends the poll loop; it is followed
\* by exactly one role-credential exchange, and when that exchange succeeds the
\* login yields a session whose account_id and role_name are those of the
\* request; a successful answer without access token yields an error and no
\* session
C29_FirstSuccessEndsLoop ==
    /\ [](sso.pcs /= "none" /\ sso.last = "Token" =>
             /\ sso.access_token /= None
             /\ sso.pcs /= "poll"
             /\ sso.exchanges = IF sso.pcs = "exchange" THEN 0 ELSE 1
             /\ FlowReturned =>
                    \/ /\ sso.result = "session"
                       /\ Unwrap(sso.session).account_id = sso.cfg.account_id
                       /\ Unwrap(sso.session).role_name = sso.cfg.role_name
                    \/ sso.result = "error" /\ sso.error \in ExchangeFailures)
    /\ [](sso.pcs /= "none" /\ sso.last = "NoToken" =>
             /\ sso.pcs = "done"
             /\ sso.result = "error"
             /\ sso.session = None
             /\ sso.exchanges = 0)
    /\ [](sso.pcs /= "none" /\ sso.result = "session" =>
             sso.last = "Token" /\ sso.exchanges = 1)
    /\ [][sso.last \in {"Token", "NoToken"} => sso'.polls = sso.polls]_vars
    /\ (sso.last = "Token" ~> sso.exchanges = 1)

\* two authorization-pending answers, then the token: one exchange, and the
\* session bears the account and the role of the request
C29_Witness ==
    /\ sso.polls = 3
    /\ sso.slowdowns = 0
    /\ sso.last = "Token"
    /\ sso.exchanges = 1
    /\ sso.result = "session"
    /\ Unwrap(sso.session).account_id = "333333333333"
    /\ Unwrap(sso.session).role_name = "viewer"

(***************************************************************************)
(* The daemon process: server.rs, run_fg and _run, from the start of the   *)
(* process to its exit.  srv holds the position of _run, the socket file,  *)
(* the calls that failed, the tasks spawned for accepted connections and   *)
(* the Result the process ends with.                                       *)
(***************************************************************************)
MaxAccepts == 2
MaxAcceptErrors == 1

\* the socket file before the daemon starts: absent, or left by an earlier run
SocketFiles == {"absent", "stale"}

ServerStart(file) ==
    [pcv |-> "remove_stale", socket |-> file, mode |-> "none", failed |-> {},
     tasks |-> <<>>, accept_errors |-> 0, result |-> "none", error |-> ""]

\* let _ = remove_file(SOCKET_PATH).await: the result is dropped
RemoveStale ==
    /\ srv.pcv = "remove_stale"
    /\ \E ok \in BOOLEAN :
           srv' = [srv EXCEPT !.pcv = "bind",
                              !.socket = IF ok THEN "absent" ELSE @,
                              !.failed = IF ok \/ srv.socket = "absent"
                                         THEN @ ELSE @ \cup {"remove_stale"}]
    /\ UNCHANGED <<daemonVars, wire, probe, sso>>

\* UnixListener::bind(SOCKET_PATH).with_context(..)?: the error is returned
BindFailed(err) ==
    srv' = [srv EXCEPT !.pcv = "returned", !.failed = @ \cup {"bind"},
                       !.result = "error", !.error = err]

\* UnixListener::bind: fails on a path that exists, and may fail on any path
Bind ==
    /\ srv.pcv = "bind"
    /\ \/ /\ srv.socket = "absent"
          /\ srv' = [srv EXCEPT !.pcv = "set_permissions", !.socket = "bound",
                                !.mode = "umask"]
       \/ BindFailed("failed to create socket path")
    /\ UNCHANGED <<daemonVars, wire, probe, sso>>

\* if let Err(e) = std::fs::set_permissions(..) { error!(..) }: a failure is
\* logged, and _run goes on to the accept loop with the mode the bind left
SetPermissions ==
    /\ srv.pcv = "set_permissions"
    /\ \/ srv' = [srv EXCEPT !.pcv = "serving", !.mode = "0660"]
       \/ srv' = [srv EXCEPT !.pcv = "serving",
                             !.failed = @ \cup {"set_permissions"}]
    /\ UNCHANGED <<daemonVars, wire, probe, sso>>

\* res = listener.accept(): a connection gets a task of its own, an error is
\* logged
Accept ==
    /\ srv.pcv = "serving"
    /\ \/ /\ Len(srv.tasks) < MaxAccepts
          /\ srv' = [srv EXCEPT !.tasks = Append(@, "reading")]
       \/ /\ srv.accept_errors < MaxAcceptErrors
          /\ srv' = [srv EXCEPT !.accept_errors = @ + 1]
    /\ UNCHANGED <<daemonVars, wire, probe, sso>>

\* _ = signal::ctrl_c() => break
CtrlC ==
    /\ srv.pcv = "serving"
    /\ srv' = [srv EXCEPT !.pcv = "cleanup"]
    /\ UNCHANGED <<daemonVars, wire, probe, sso>>

\* drop(listener); remove_file(SOCKET_PATH): a failure is logged; Ok(())
Cleanup ==
    /\ srv.pcv = "cleanup"
    /\ \/ srv' = [srv EXCEPT !.pcv = "returned", !.socket = "absent",
                             !.mode = "none", !.result = "ok"]
       \/ srv' = [srv EXCEPT !.pcv = "returned", !.result = "ok",
                             !.failed = @ \cup {"remove_file"}]
    /\ UNCHANGED <<daemonVars, wire, probe, sso>>

\* a task of handle_client: it reads a request, answers it, and ends when the
\* peer closes
ClientTask(i) ==
    /\ srv.pcv \in {"serving", "cleanup", "returned"}
    /\ \/ /\ srv.tasks[i] = "reading"
          /\ \E to \in {"handling", "closed"} :
                 srv' = [srv EXCEPT !.tasks[i] = to]
       \/ /\ srv.tasks[i] = "handling"
          /\ srv' = [srv EXCEPT !.tasks[i] = "reading"]
    /\ UNCHANGED <<daemonVars, wire, probe, sso>>

\* block_on returns the Result of _run, run_fg drops the runtime and the
\* process exits: the tasks still running are dropped where they stand, a task
\* waiting for a request ("dropped") as well as a task that has read a request
\* and has not written its response ("interrupted")
Exit ==
    /\ srv.pcv = "returned"
    /\ srv' = [srv EXCEPT !.pcv = "exited",
                          !.tasks = [i \in DOMAIN @ |->
                                        CASE @[i] = "closed" -> "closed"
                                          [] @[i] = "reading" -> "dropped"
                                          [] OTHER -> "interrupted"]]
    /\ UNCHANGED <<daemonVars, wire, probe, sso>>

ServerInit ==
    /\ srv \in {ServerStart(file) : file \in SocketFiles}
    /\ sso = NoSso
    /\ wire = NoWire
    /\ probe = NoProbe
    /\ pc = [c \in Conns |-> "read"]
    /\ cur = [c \in Conns |-> [seq |-> 0, req |-> NoReq]]
    /\ resp = [c \in Conns |-> [seq |-> 0, msg |-> NoResp]]
    /\ loc = [c \in Conns |-> NoLoc]
    /\ nread = [c \in Conns |-> 0]
    /\ written = [c \in Conns |-> <<>>]
    /\ aws_sessions = EmptyMap
    /\ clusters = EmptyMap
    /\ default_cluster \in ClusterNames
    /\ sessLock = 0
    /\ clusLock = 0
    /\ installed = FALSE
    /\ mirrors = <<>>
    /\ apiLog = <<>>
    /\ nerrs = 0

ServerNext ==
    \/ RemoveStale
    \/ Bind
    \/ SetPermissions
    \/ Accept
    \/ CtrlC
    \/ Cleanup
    \/ \E i \in DOMAIN srv.tasks : ClientTask(i)
    \/ Exit

ServerSpec == ServerInit /\ [][ServerNext]_vars

(***************************************************************************)
(* C30.                                                                    *)
(***************************************************************************)
\* a step of the startup that the claim calls fatal has failed
StartupFailed == srv.failed \cap {"bind", "set_permissions"} /= {}

\* C30: once the bind of the socket or the setting of its permissions has
\* failed, the daemon is on its way out with an error: it is not in the accept
\* loop, it has accepted no connection, and it ends with an error
C30_StartupFailureIsFatal ==
    StartupFailed =>
        /\ srv.pcv \in {"returned", "exited"}
        /\ srv.result = "error"
        /\ srv.tasks = <<>>
        /\ srv.accept_errors = 0

(***************************************************************************)
(* C31.                                                                    *)
(***************************************************************************)
\* the stop signal has been taken
StopTaken == srv.pcv \in {"cleanup", "returned", "exited"} /\ srv.result /= "error"

\* C31: after the stop signal no connection is accepted any more, the process
\* does not exit while a connection has read a request and not yet written its
\* response, and the socket file is removed (unless its removal itself fails)
C31_StopLetsRequestsFinish ==
    /\ [](StopTaken /\ srv.pcv = "exited" =>
             /\ \A i \in DOMAIN srv.tasks : srv.tasks[i] /= "interrupted"
             /\ "remove_file" \notin srv.failed => srv.socket = "absent")
    /\ [][StopTaken => Len(srv'.tasks) = Len(srv.tasks)]_vars

(***************************************************************************)
(* C32.                                                                    *)
(***************************************************************************)
\* connection c is in the attach of its Login, past the read of the session
Attaching(c) ==
    /\ pc[c] \in {"attach_sdk", "attach_describe", "attach_token", "attach_init"}
    /\ loc[c].session /= None

\* the session carries the credentials of the request
SessionOf(session, req) ==
    /\ session.account_id = req.account_id
    /\ session.role_name = req.role_name
    /\ session.region = req.region
    /\ session.access_key_id = req.access_key_id
    /\ session.secret_access_key = req.secret_access_key
    /\ session.session_token = req.session_token

\* C32: the session a Login attaches with is the session built from this
\* Login's own request, whatever other Logins for the profile do meanwhile
C32_AttachUsesOwnSession ==
    \A c \in Conns : Attaching(c) => SessionOf(Unwrap(loc[c].session), cur[c].req)

(***************************************************************************)
(* C33.                                                                    *)
(***************************************************************************)
\* connection a is inside start_clusters_for_profile
InAttach(a) ==
    pc[a] \in {"attach_get", "attach_sdk", "attach_describe", "attach_token",
               "attach_init"}

\* connection b is inside the handler of a Ping, Version, Pods or Env request
ServingRead(b) ==
    pc[b] \in {"ping", "version", "pods_lock", "pods_snapshot", "env_lock",
               "env_snapshot"}

\* connection b waits for the reflector's writer to release the store
AwaitsStore(b) ==
    /\ pc[b] \in {"pods_snapshot", "env_snapshot"}
    /\ ~StoreReadable(mirrors[loc[b].mirror])

\* C33: while a Login is in its attach, the handler of a Ping, Version, Pods or
\* Env request on another connection can always take its next step (it waits
\* for nothing the attach holds), and each of its steps takes it forward to its
\* response
C33_ReadsNotBlockedByAttach ==
    /\ [](\A a \in Conns : \A b \in Conns \ {a} :
             InAttach(a) /\ ServingRead(b) /\ ~AwaitsStore(b) => ENABLED ConnStep(b))
    /\ [][\A b \in Conns :
             ServingRead(b) /\ pc'[b] /= pc[b] =>
                 \/ pc'[b] = "write" /\ resp'[b].seq = cur[b].seq
                 \/ pc[b] = "pods_lock" /\ pc'[b] = "pods_snapshot"
                 \/ pc[b] = "env_lock" /\ pc'[b] = "env_snapshot"]_vars

\* a Pods request on the second connection has its response ready to be
\* written while the Login on the first is still waiting for the token
C33_Witness ==
    /\ pc[1] = "attach_token"
    /\ nread[1] = 1
    /\ cur[2].req.kind = "Pods"
    /\ pc[2] = "write"
    /\ resp[2].seq = 1

(***************************************************************************)
(* The registry locks under contention: the handlers of both connections   *)
(* with one request more than in Spec, so that a handler can hold the      *)
(* clusters lock of an attached cluster while the other connection arrives *)
(* at a lock.  The watch tasks and the API server stand still.             *)
(***************************************************************************)
\* the requests whose handlers take a registry lock
LockReqs ==
    {req \in LoginReqs : req.name = "dev"}
        \cup {req \in PodsReqs \cup EnvReqs : req.cluster = Some(AttachName)}

LockNext ==
    \/ \E c \in Conns : \E req \in LockReqs : ReadRequestUpTo(c, req, MaxReqs + 1)
    \/ \E c \in Conns : LoginStore(c) \/ AttachGet(c) \/ AttachSdkConfig(c)
    \/ \E c \in Conns : AttachDescribe(c) \/ AttachToken(c) \/ AttachInit(c)
    \/ \E c \in Conns : PodsLock(c) \/ PodsServe(c)
    \/ \E c \in Conns : EnvLock(c) \/ EnvServe(c)
    \/ \E c \in Conns : WriteOk(c)

LockSpec == Init /\ [][LockNext]_vars

(***************************************************************************)
(* C34.                                                                    *)
(***************************************************************************)
\* connection c is at a statement that takes the sessions lock, or the
\* clusters lock
AtSessionsLock(c) == pc[c] \in {"login_lock", "attach_get"}
AtClustersLock(c) == pc[c] \in {"pods_lock", "env_lock", "attach_init"}

\* connection c cannot go on because another connection holds the lock it takes
WaitsForLock(c) ==
    \/ AtSessionsLock(c) /\ sessLock \notin {0, c}
    \/ AtClustersLock(c) /\ clusLock \notin {0, c}

\* C34: no connection holds both registry locks at once, no connection takes
\* one of them while it holds the other, and a connection that waits for a
\* registry lock waits for a holder that is not itself waiting for one
C34_NeverTwoRegistryLocks ==
    /\ [](\A c \in Conns : ~(sessLock = c /\ clusLock = c))
    /\ [](\A c \in Conns :
             /\ WaitsForLock(c) /\ AtSessionsLock(c) => ~WaitsForLock(sessLock)
             /\ WaitsForLock(c) /\ AtClustersLock(c) => ~WaitsForLock(clusLock))
    /\ [][\A c \in Conns :
             /\ AtSessionsLock(c) /\ pc'[c] /= pc[c] => clusLock /= c
             /\ AtClustersLock(c) /\ pc'[c] /= pc[c] => sessLock /= c]_vars

\* a Pods handler holds the clusters lock, on a mirror that a finished Login
\* registered after it had stored its session, while the other connection
\* waits for that lock
C34_Witness ==
    \E c \in Conns : \E d \in Conns \ {c} :
        /\ clusLock = c
        /\ sessLock = 0
        /\ pc[c] = "pods_snapshot"
        /\ aws_sessions /= EmptyMap
        /\ WaitsForLock(d)

(***************************************************************************)
(* C35.                                                                    *)
(***************************************************************************)
\* connection c looks up the cluster of a request that names none
LooksUpDefault(c) == LooksUp(c) /\ cur[c].req.cluster = None

\* C35: the registry holds mirrors only under the name the Login registers
\* them; once it holds one, a Pods or Env request without cluster is served
\* from that mirror, under the default name, when the default cluster is that
\* name, and is answered by the cluster-not-found Error naming the default
\* when it is not
C35_DefaultClusterResolution ==
    /\ [](DOMAIN clusters \subseteq {AttachName})
    /\ [][\A c \in Conns :
             LooksUpDefault(c) /\ DOMAIN clusters /= {} =>
                 IF default_cluster = AttachName
                 THEN /\ pc'[c] \in {"pods_snapshot", "env_snapshot"}
                      /\ loc'[c].cluster = default_cluster
                      /\ loc'[c].mirror = clusters[AttachName]
                 ELSE /\ pc'[c] = "write"
                      /\ resp'[c].msg =
                             ErrorResp(<<"cluster not found: ", default_cluster>>)]_vars

\* after a Login, a Pods request without cluster is being served from the
\* mirror registered under the default name
C35_Witness ==
    \E c \in Conns :
        /\ pc[c] = "pods_snapshot"
        /\ cur[c].req.cluster = None
        /\ default_cluster = AttachName
        /\ clusters /= EmptyMap
        /\ loc[c].mirror = clusters[AttachName]
        /\ loc[c].cluster = AttachName

(***************************************************************************)
(* extract_status_fields on its own: a pod status is drawn from a bounded  *)
(* set, and one step computes its fields as from_pod does.                 *)
(***************************************************************************)
MaxContainers == 2

\* the restart counts of a container: none, one, and the largest i32
ProbeRestarts == {0, 1, MaxI32}
\* the waiting and the terminated state of a container: absent, present
\* without reason and message, present with both
ProbeWaiting == {None, Some(CState(None, None)),
                 Some(CState(Some("CrashLoopBackOff"), Some("back-off")))}
ProbeTerminated == {None, Some(CState(None, None)),
                    Some(CState(Some("Error"), Some("exit 1")))}
ProbeStatuses ==
    {CStatus(r, w, t) : r \in ProbeRestarts, w \in ProbeWaiting, t \in ProbeTerminated}

\* the statuses a pod can carry: none, one without container statuses, and
\* one for every list of up to MaxContainers container statuses
ProbePodStatuses ==
    {None, Some([phase |-> Some("Running"), conditions |-> None,
                 container_statuses |-> None])}
        \cup {Some([phase |-> Some("Running"),
                    conditions |-> Some(<<Cond("Ready", "True")>>),
                    container_statuses |-> Some(cs)]) :
                 cs \in UNION {[1..n -> ProbeStatuses] : n \in 0..MaxContainers}}

StatusInit ==
    /\ probe \in {[kind |-> "Status", status |-> st, done |-> FALSE] :
                     st \in ProbePodStatuses}
    /\ wire = NoWire
    /\ sso = NoSso
    /\ srv = Serving
    /\ pc = [c \in Conns |-> "read"]
    /\ cur = [c \in Conns |-> [seq |-> 0, req |-> NoReq]]
    /\ resp = [c \in Conns |-> [seq |-> 0, msg |-> NoResp]]
    /\ loc = [c \in Conns |-> NoLoc]
    /\ nread = [c \in Conns |-> 0]
    /\ written = [c \in Conns |-> <<>>]
    /\ aws_sessions = EmptyMap
    /\ clusters = EmptyMap
    /\ default_cluster = AttachName
    /\ sessLock = 0
    /\ clusLock = 0
    /\ installed = FALSE
    /\ mirrors = <<>>
    /\ apiLog = <<>>
    /\ nerrs = 0

\* let (reason, message, ready, restart_count) = extract_status_fields(..)
ProbeStatus ==
    /\ probe.kind = "Status"
    /\ ~probe.done
    /\ probe' = [kind |-> "Status", status |-> probe.status, done |-> TRUE,
                 out |-> extract_status_fields(probe.status)]
    /\ UNCHANGED <<daemonVars, wire, sso, srv>>

StatusNext == ProbeStatus
StatusSpec == StatusInit /\ [][StatusNext]_vars

(***************************************************************************)
(* C36.                                                                    *)
(***************************************************************************)
\* the container statuses of the status examined
ProbedContainers ==
    IF probe.status /= None /\ Unwrap(probe.status).container_statuses /= None
    THEN Unwrap(Unwrap(probe.status).container_statuses)
    ELSE <<>>

\* container status c has a waiting or a terminated state
Stateful(c) == c.waiting /= None \/ c.terminated /= None

\* the state a container status reports: terminated before waiting
OwnState(c) == IF c.terminated /= None THEN Unwrap(c.terminated) ELSE Unwrap(c.waiting)

\* the greatest index in S, 0 when S is empty
Last(S) == IF S = {} THEN 0 ELSE CHOOSE i \in S : \A j \in S : j <= i

\* the last container status with a state, and the last whose state has a reason
LastStateful(cs) == Last({i \in 1..Len(cs) : Stateful(cs[i])})
LastReasoned(cs) ==
    Last({i \in 1..Len(cs) : Stateful(cs[i]) /\ OwnState(cs[i]).reason /= None})

\* C36: the reason is the reason of the last container status with a waiting
\* or terminated state, terminated before waiting, where a state without
\* reason leaves the reason of an earlier container in place; the message is
\* the message of the same state
C36_ReasonOfLastStatefulContainer ==
    probe.kind = "Status" /\ probe.done =>
        LET cs == ProbedContainers
            k == LastReasoned(cs)
        IN /\ probe.out.reason = IF k = 0 THEN None ELSE OwnState(cs[k]).reason
           /\ k /= 0 /\ k = LastStateful(cs) =>
                  probe.out.message = OwnState(cs[k]).message

(***************************************************************************)
(* C37.                                                                    *)
(***************************************************************************)
\* the restart counts of container statuses cs, all non-negative, can be added
\* to acc one after the other without leaving the range of an i32
RECURSIVE SumFits(_, _)
SumFits(acc, cs) ==
    \/ cs = <<>>
    \/ /\ Head(cs).restart_count <= MaxI32 - acc
       /\ SumFits(acc + Head(cs).restart_count, Tail(cs))

\* the sum of the restart counts of cs, for cs that SumFits
RECURSIVE RestartSum(_)
RestartSum(cs) ==
    IF cs = <<>> THEN 0 ELSE Head(cs).restart_count + RestartSum(Tail(cs))

\* C37: the restart count of the view is the sum of the restart counts of the
\* container statuses, for all counts of the i32 range: the sum is never out of
\* the range of the field, and the field is that sum
C37_RestartCountIsTheSum ==
    probe.kind = "Status" /\ probe.done =>
        /\ SumFits(0, ProbedContainers)
        /\ probe.out.restart_count = RestartSum(ProbedContainers)

(***************************************************************************)
(* C38.                                                                    *)
(***************************************************************************)
\* what a Pods request without filters lists for a snapshot
ListedBy(pods) == Range(PodsResult(AttachName, PodsReq(Some(AttachName), None, FALSE), pods))

\* the answer of handle_env when its search finds no pod
PodNotFound(req) == ErrorResp(<<"pod ", req.namespace, "/", req.pod, " not found">>)

\* C38: an Env request for the namespace and the name under which a Pods
\* response lists a pod of the same snapshot finds that pod
C38_ListedPodsAreFoundByEnv ==
    probe.kind = "Env" /\ probe.done =>
        ((\E v \in ListedBy(probe.pods) :
              v.namespace = probe.req.namespace /\ v.name = probe.req.pod)
            => probe.out /= PodNotFound(probe.req))

(***************************************************************************)
(* C39.                                                                    *)
(***************************************************************************)
\* the broker's response carries the plain verification URL, the codes, and no
\* complete verification URL
PlainUriOnly ==
    /\ sso.pcs /= "none"
    /\ sso.device_auth /= None
    /\ Unwrap(sso.device_auth).verification_uri_complete = None
    /\ Unwrap(sso.device_auth).verification_uri /= None
    /\ Unwrap(sso.device_auth).device_code /= None
    /\ Unwrap(sso.device_auth).user_code /= None

\* C39: with a response that carries the plain verification URL only, the
\* callback has been called once, with the plain URL, and the login has not
\* failed for want of a verification URL
C39_PlainUriIsEnough ==
    PlainUriOnly =>
        /\ sso.callbacks = <<"plain">>
        /\ sso.error /= "missing verification URI"

====
